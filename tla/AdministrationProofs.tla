------------------------ MODULE AdministrationProofs ------------------------
(***************************************************************************)
(* Administration, for any administrators, browsers and lifetimes.  The    *)
(* advisory lock of the role changes and the terms that codes, logins and  *)
(* sessions carry are what the invariants are about.                       *)
(***************************************************************************)
EXTENDS Administration, TLAPS

Issuing == [admin : Admin, term : 0 .. MaxRemovals]

\* A code is only being issued while there is one left to issue.
TypeInv == AdminTypeOK /\ (issuing # NoOne => issued < MaxCodes)

LEMMA Rows ==
    ASSUME AdminTypeOK
    PROVE  /\ \A a \in Admin : codes[a] # None => codes[a] \in Code
           /\ \A b \in Browser : sessions[b] # None => sessions[b] \in Session
           /\ \A b \in Browser : login[b] # None => login[b] \in Login
           /\ \A b \in Browser : change[b] # None => change[b] \in Change
           /\ issuing # NoOne => issuing \in Issuing
  BY DEF AdminTypeOK, Issuing

\* A tick shortens the lifetimes of a row and leaves the rest of it alone.
LEMMA CodeTicks ==
    ASSUME NEW c \in Code, ~RunsOut(c.left)
    PROVE  /\ [c EXCEPT !.left = @ - 1] \in Code
           /\ [c EXCEPT !.left = @ - 1].id = c.id
           /\ [c EXCEPT !.left = @ - 1].term = c.term
           /\ [c EXCEPT !.left = @ - 1].late = c.late
<1>1. c.left \in Life(CodeLife)
  BY DEF Code
<1>2. c.left - 1 \in Life(CodeLife)
  BY <1>1, LifeAssumption DEF Life, RunsOut
<1>3. ASSUME NEW d \in Life(CodeLife)
      PROVE  /\ [c EXCEPT !.left = d] \in Code
             /\ [c EXCEPT !.left = d].id = c.id
             /\ [c EXCEPT !.left = d].term = c.term
             /\ [c EXCEPT !.left = d].late = c.late
  BY DEF Code
<1> QED
  BY <1>2, <1>3

LEMMA SessionTicks ==
    ASSUME NEW s \in Session, ~RunsOut(s.left), ~RunsOut(s.idle)
    PROVE  LET t == [s EXCEPT !.left = @ - 1, !.idle = @ - 1] IN
           /\ t \in Session
           /\ t.admin = s.admin /\ t.code = s.code /\ t.term = s.term
           /\ t.late = s.late
<1>1. s.left \in Life(SessionLife) /\ s.idle \in Life(IdleLife)
  BY DEF Session
<1>2. s.left - 1 \in Life(SessionLife) /\ s.idle - 1 \in Life(IdleLife)
  BY <1>1, LifeAssumption DEF Life, RunsOut
<1>3. ASSUME NEW d \in Life(SessionLife), NEW e \in Life(IdleLife)
      PROVE  LET t == [s EXCEPT !.left = d, !.idle = e] IN
             /\ t \in Session
             /\ t.admin = s.admin /\ t.code = s.code /\ t.term = s.term
             /\ t.late = s.late
  BY DEF Session
<1>4. s.idle = [s EXCEPT !.left = s.left - 1].idle
  BY DEF Session
<1> QED
  BY <1>2, <1>3, <1>4

\* Being touched or held changes neither whose session it is nor its code.
LEMMA SessionIsUsed ==
    ASSUME NEW s \in Session
    PROVE  /\ [s EXCEPT !.idle = IdleLife] \in Session
           /\ [s EXCEPT !.idle = IdleLife].admin = s.admin
           /\ [s EXCEPT !.idle = IdleLife].code = s.code
           /\ [s EXCEPT !.idle = IdleLife].term = s.term
           /\ [s EXCEPT !.idle = IdleLife].late = s.late
           /\ [s EXCEPT !.held = TRUE] \in Session
           /\ [s EXCEPT !.held = TRUE].admin = s.admin
           /\ [s EXCEPT !.held = TRUE].code = s.code
           /\ [s EXCEPT !.held = TRUE].term = s.term
           /\ [s EXCEPT !.held = TRUE].late = s.late
<1>1. IdleLife \in Life(IdleLife)
  BY LifeAssumption DEF Life
<1> QED
  BY <1>1 DEF Session
-----------------------------------------------------------------------------
(* What most steps have in common: no code, session or login appears or     *)
(* changes whose it is.                                                     *)
SameSession(s, t) == t # None /\ s.admin = t.admin /\ s.code = t.code /\ s.term = t.term /\ s.late = t.late
SameCode(c, d) == d # None /\ c.id = d.id /\ c.term = d.term /\ c.late = d.late

SessionsKept == \A b \in Browser : sessions'[b] # None => SameSession(sessions'[b], sessions[b])
CodesKept == \A a \in Admin : codes'[a] # None => SameCode(codes'[a], codes[a])
LoginsKept == \A b \in Browser : login'[b].phase = "create" => login'[b] = login[b]

SessionsTyped == sessions \in [Browser -> Session \union {None}]
CodesTyped == codes \in [Admin -> Code \union {None}]
LoginsTyped == login \in [Browser -> Login \union {None}]
ChangesTyped == change \in [Browser -> Change \union {None}]

LEMMA Touching ==
    ASSUME AdminTypeOK, NEW b \in Browser, sessions[b] # None, sessions' = Touched(b)
    PROVE  SessionsTyped' /\ SessionsKept
<1>1. sessions[b] \in Session
  BY Rows
<1>2. sessions'[b] = [sessions[b] EXCEPT !.idle = IdleLife]
  BY DEF Touched, AdminTypeOK
<1>3. \A x \in Browser \ {b} : sessions'[x] = sessions[x]
  BY DEF Touched, AdminTypeOK
<1>4. sessions'[b] \in Session /\ SameSession(sessions'[b], sessions[b])
  BY <1>1, <1>2, SessionIsUsed DEF SameSession
<1>5. SessionsTyped'
  BY <1>3, <1>4 DEF SessionsTyped, Touched, AdminTypeOK
<1> QED
  BY <1>3, <1>4, <1>5 DEF SessionsKept, SameSession

LEMMA Holding ==
    ASSUME AdminTypeOK, NEW b \in Browser,
           sessions' = [sessions EXCEPT ![b] =
                           IF sessions[b] = None THEN None ELSE [sessions[b] EXCEPT !.held = TRUE]]
    PROVE  SessionsTyped' /\ SessionsKept
<1>1. \A x \in Browser \ {b} : sessions'[x] = sessions[x]
  BY DEF AdminTypeOK
<1>2. CASE sessions[b] = None
  BY <1>1, <1>2 DEF SessionsTyped, SessionsKept, SameSession, AdminTypeOK
<1>3. CASE sessions[b] # None
  <2>1. sessions[b] \in Session
    BY <1>3, Rows
  <2>2. sessions'[b] = [sessions[b] EXCEPT !.held = TRUE]
    BY <1>3 DEF AdminTypeOK
  <2>3. sessions'[b] \in Session /\ SameSession(sessions'[b], sessions[b])
    BY <1>3, <2>1, <2>2, SessionIsUsed DEF SameSession
  <2>4. SessionsTyped'
    BY <1>1, <2>3 DEF SessionsTyped, AdminTypeOK
  <2> QED
    BY <1>1, <2>3, <2>4 DEF SessionsKept, SameSession
<1> QED
  BY <1>2, <1>3

LEMMA SessionsEnd ==
    ASSUME AdminTypeOK, NEW S \in SUBSET Browser,
           sessions' = [x \in Browser |-> IF x \in S THEN None ELSE sessions[x]]
    PROVE  SessionsTyped' /\ SessionsKept
  BY DEF SessionsTyped, SessionsKept, SameSession, AdminTypeOK

LEMMA Ticking ==
    ASSUME AdminTypeOK, AdminTick
    PROVE  SessionsTyped' /\ SessionsKept /\ CodesTyped' /\ CodesKept
<1>1. ASSUME NEW a \in Admin, codes'[a] # None
      PROVE  codes'[a] \in Code /\ SameCode(codes'[a], codes[a])
  <2>1. codes[a] # None /\ ~RunsOut(codes[a].left) /\ codes'[a] = [codes[a] EXCEPT !.left = @ - 1]
    BY <1>1 DEF AdminTick
  <2>2. codes[a] \in Code
    BY <2>1, Rows
  <2> QED
    BY <2>1, <2>2, CodeTicks DEF SameCode
<1>2. ASSUME NEW b \in Browser, sessions'[b] # None
      PROVE  sessions'[b] \in Session /\ SameSession(sessions'[b], sessions[b])
  <2>1. /\ sessions[b] # None /\ ~RunsOut(sessions[b].left) /\ ~RunsOut(sessions[b].idle)
        /\ sessions'[b] = [sessions[b] EXCEPT !.left = @ - 1, !.idle = @ - 1]
    BY <1>2 DEF AdminTick
  <2>2. sessions[b] \in Session
    BY <2>1, Rows
  <2> QED
    BY <2>1, <2>2, SessionTicks DEF SameSession
<1>3. CodesTyped'
  BY <1>1 DEF CodesTyped, AdminTick
<1>4. SessionsTyped'
  BY <1>2 DEF SessionsTyped, AdminTick
<1> QED
  BY <1>1, <1>2, <1>3, <1>4 DEF CodesKept, SessionsKept
-----------------------------------------------------------------------------
Untouched == UNCHANGED <<admins, lock, issuing, issued, term>>

\* The type invariant, put together again from the parts a step changes.
LEMMA TypeParts ==
    ASSUME TypeInv, Untouched, SessionsTyped', CodesTyped', LoginsTyped', ChangesTyped'
    PROVE  TypeInv'
  BY DEF TypeInv, AdminTypeOK, Untouched, SessionsTyped, CodesTyped, LoginsTyped, ChangesTyped

LEMMA Typed == AdminTypeOK => SessionsTyped /\ CodesTyped /\ LoginsTyped /\ ChangesTyped
  BY DEF AdminTypeOK, SessionsTyped, CodesTyped, LoginsTyped, ChangesTyped

LEMMA TypeInit == AdminInit => TypeInv
<1> SUFFICES ASSUME AdminInit
             PROVE  TypeInv
  OBVIOUS
<1>1. 0 \in 0 .. MaxCodes /\ 0 \in 0 .. MaxRemovals
  BY AdminBounds
<1>2. admins \in [Admin -> [role : Role \union {"none"}, active : BOOLEAN]]
  <2> DEFINE Row == {[role |-> "none", active |-> FALSE]} \union [role : Role, active : BOOLEAN]
  <2>1. Row \subseteq [role : Role \union {"none"}, active : BOOLEAN]
    <3>1. [role |-> "none", active |-> FALSE] \in [role : Role \union {"none"}, active : BOOLEAN]
      OBVIOUS
    <3>2. [role : Role, active : BOOLEAN] \subseteq [role : Role \union {"none"}, active : BOOLEAN]
      BY Zenon
    <3> QED
      BY <3>1, <3>2, Zenon
  <2>2. admins \in [Admin -> Row]
    BY DEF AdminInit
  <2> QED
    BY <2>1, <2>2
<1>3. \A a \in Admin : admins[a].role = "none" => ~admins[a].active
  BY DEF AdminInit, Role
<1>4. codes \in [Admin -> Code \union {None}]
  BY DEF AdminInit
<1>5. sessions \in [Browser -> Session \union {None}]
  BY DEF AdminInit
<1>6. login \in [Browser -> Login \union {None}]
  BY DEF AdminInit
<1>7. change \in [Browser -> Change \union {None}]
  BY DEF AdminInit
<1>8. term \in [Admin -> 0 .. MaxRemovals]
  BY <1>1 DEF AdminInit
<1>9. issuing = NoOne /\ issued \in 0 .. MaxCodes /\ lock = "free"
  BY <1>1 DEF AdminInit
<1> QED
  BY <1>2, <1>3, <1>4, <1>5, <1>6, <1>7, <1>8, <1>9 DEF TypeInv, AdminTypeOK
-----------------------------------------------------------------------------
Kept == SessionsKept /\ CodesKept /\ LoginsKept

LEMMA Unchanged ==
    /\ AdminTypeOK /\ sessions' = sessions => SessionsKept /\ SessionsTyped'
    /\ AdminTypeOK /\ codes' = codes => CodesKept /\ CodesTyped'
    /\ AdminTypeOK /\ login' = login => LoginsKept /\ LoginsTyped'
    /\ AdminTypeOK /\ change' = change => ChangesTyped'
  BY DEF AdminTypeOK, SessionsKept, CodesKept, LoginsKept, SameSession, SameCode,
         SessionsTyped, CodesTyped, LoginsTyped, ChangesTyped

LEMMA IssueKeeps ==
    ASSUME TypeInv, NEW a \in Admin, FindActive(a) \/ ReplaceFails
    PROVE  TypeInv' /\ Kept
<1>1. UNCHANGED <<admins, codes, sessions, login, change, lock, issued, term>>
  BY DEF FindActive, ReplaceFails
<1>2. issuing' \in Issuing \union {NoOne} /\ (issuing' # NoOne => issued' < MaxCodes)
  <2>1. term[a] \in 0 .. MaxRemovals
    BY DEF TypeInv, AdminTypeOK
  <2> QED
    BY <2>1 DEF FindActive, ReplaceFails, Issuing
<1> QED
  BY <1>1, <1>2, Unchanged DEF TypeInv, AdminTypeOK, Kept, Issuing

LEMMA ReplaceKeeps ==
    ASSUME TypeInv, Replace
    PROVE  /\ TypeInv' /\ SessionsKept /\ LoginsKept
           /\ issued' = issued + 1 /\ issued' \in 1 .. MaxCodes
           /\ \A a \in Admin : codes'[a] # None =>
                \/ SameCode(codes'[a], codes[a])
                \/ codes'[a].id = issued' /\ (codes'[a].late \/ codes'[a].term = term[a])
           /\ \A a, d \in Admin : codes'[a] # codes[a] /\ codes'[d] # codes[d] => a = d
<1> DEFINE a == issuing.admin
           late == issuing.term # term[a]
           code == [id |-> issued + 1, left |-> CodeLife, term |-> issuing.term, late |-> late]
<1>1. issuing \in Issuing
  BY Rows DEF Replace, TypeInv
<1>2. a \in Admin /\ issuing.term \in 0 .. MaxRemovals
  BY <1>1 DEF Issuing
<1>3. issued' = issued + 1 /\ issued' \in 1 .. MaxCodes
  BY AdminBounds DEF Replace, TypeInv, AdminTypeOK
<1>4. CodeLife \in Life(CodeLife)
  BY LifeAssumption DEF Life
<1>5. codes' = [codes EXCEPT ![a] = code]
  BY DEF Replace
<1>6. late \in BOOLEAN
  BY Zenon
<1>7. code \in Code
  <2>1. issued + 1 \in 1 .. MaxCodes
    BY <1>3
  <2> HIDE DEF late
  <2> QED
    BY <1>2, <1>4, <1>6, <2>1 DEF Code
<1>8. codes'[a] = code /\ \A d \in Admin \ {a} : codes'[d] = codes[d]
  BY <1>2, <1>5 DEF TypeInv, AdminTypeOK
<1>9. code.id = issued' /\ (code.late \/ code.term = term[a])
  <2>1. code.id = issued + 1
    OBVIOUS
  <2>2. code.late \/ code.term = term[a]
    OBVIOUS
  <2> QED
    BY <1>3, <2>1, <2>2
<1>10. codes' \in [Admin -> Code \union {None}]
  BY <1>2, <1>5, <1>7 DEF TypeInv, AdminTypeOK
<1>11. UNCHANGED <<admins, sessions, login, change, lock, term>> /\ issuing' = NoOne
  BY DEF Replace
<1>12. TypeInv'
  <2>1. issued' \in 0 .. MaxCodes
    BY <1>3, AdminBounds
  <2> QED
    BY <1>10, <1>11, <2>1 DEF TypeInv, AdminTypeOK
<1>13. SessionsKept /\ LoginsKept
  BY <1>11, Unchanged DEF TypeInv
<1>14. \A d \in Admin : codes'[d] # None =>
                \/ SameCode(codes'[d], codes[d])
                \/ codes'[d].id = issued' /\ (codes'[d].late \/ codes'[d].term = term[d])
  <2>1. ASSUME NEW d \in Admin \ {a}, codes'[d] # None
        PROVE  SameCode(codes'[d], codes[d])
    BY <1>8, <2>1 DEF SameCode
  <2> HIDE DEF code
  <2> QED
    BY <1>8, <1>9, <2>1
<1>15. \A c, d \in Admin : codes'[c] # codes[c] /\ codes'[d] # codes[d] => c = d
  BY <1>8
<1> QED
  BY <1>3, <1>12, <1>13, <1>14, <1>15

LEMMA ConsumeKeeps ==
    ASSUME TypeInv, NEW b \in Browser, NEW a \in Admin, Consume(b, a)
    PROVE  /\ TypeInv' /\ SessionsKept /\ CodesKept
           /\ codes'[a] = None /\ codes[a] # None
           /\ login'[b].code = codes[a].id /\ login'[b].admin = a
           /\ login'[b].term = codes[a].term /\ login'[b].late = codes[a].late
           /\ login'[b].began = term[a]
           /\ \A x \in Browser \ {b} : login'[x] = login[x]
<1> DEFINE entry == [phase |-> "create", admin |-> a, code |-> codes[a].id,
                     term |-> codes[a].term, late |-> codes[a].late, began |-> term[a]]
<1>1. codes[a] # None /\ codes[a] \in Code
  BY Rows DEF Consume, TypeInv
<1>2. codes[a].id \in 1 .. MaxCodes /\ codes[a].term \in 0 .. MaxRemovals
  BY <1>1 DEF Code
<1>3. codes[a].late \in BOOLEAN
  BY <1>1 DEF Code
<1>4. term[a] \in 0 .. MaxRemovals
  BY DEF TypeInv, AdminTypeOK
<1>5. entry \in Login
  <2>1. ASSUME NEW i \in 1 .. MaxCodes, NEW t \in 0 .. MaxRemovals, NEW l \in BOOLEAN, NEW g \in 0 .. MaxRemovals
        PROVE  [phase |-> "create", admin |-> a, code |-> i, term |-> t, late |-> l, began |-> g] \in Login
    BY DEF Login
  <2> QED
    BY <1>2, <1>3, <1>4, <2>1
<1>6. codes' = [codes EXCEPT ![a] = None] /\ login' = [login EXCEPT ![b] = entry]
  BY DEF Consume
<1>7. login'[b] = entry /\ \A x \in Browser \ {b} : login'[x] = login[x]
  BY <1>6 DEF TypeInv, AdminTypeOK
<1>8. CodesTyped' /\ CodesKept /\ codes'[a] = None
  BY <1>6 DEF TypeInv, AdminTypeOK, CodesTyped, CodesKept, SameCode
<1>9. LoginsTyped'
  BY <1>5, <1>6 DEF TypeInv, AdminTypeOK, LoginsTyped
<1>10. SessionsTyped' /\ ChangesTyped' /\ SessionsKept /\ Untouched
  BY Unchanged DEF Consume, TypeInv, Untouched
<1>11. TypeInv'
  BY <1>8, <1>9, <1>10, TypeParts
<1> QED
  BY <1>1, <1>7, <1>8, <1>10, <1>11

LEMMA CreateKeeps ==
    ASSUME TypeInv, NEW b \in Browser, Create(b)
    PROVE  /\ TypeInv' /\ CodesKept /\ LoginsKept
           /\ login[b].phase = "create" /\ login[b] \in Login /\ login'[b].phase # "create"
           /\ sessions'[b].code = login[b].code /\ sessions'[b].admin = login[b].admin
           /\ sessions'[b].term = login[b].term
           /\ sessions'[b].late \/ (~login[b].late /\ login[b].began = term[login[b].admin])
           /\ \A x \in Browser \ {b} : sessions'[x] = sessions[x]
<1> DEFINE l == login[b]
           late == l.late \/ l.began # term[l.admin]
           session == [admin |-> l.admin, code |-> l.code, idle |-> IdleLife, left |-> SessionLife,
                       term |-> l.term, late |-> late, held |-> FALSE]
<1>1. l.phase = "create" /\ l \in Login
  BY Rows DEF Create, None, TypeInv
<1>2. l.admin \in Admin /\ l.code \in 1 .. MaxCodes /\ l.term \in 0 .. MaxRemovals
  BY <1>1 DEF Login
<1>3. IdleLife \in Life(IdleLife) /\ SessionLife \in Life(SessionLife)
  BY LifeAssumption DEF Life
<1>4. late \in BOOLEAN
  BY Zenon
<1>5. session \in Session
  <2> HIDE DEF late
  <2> QED
    BY <1>2, <1>3, <1>4 DEF Session
<1>6. sessions' = [sessions EXCEPT ![b] = session]
  BY DEF Create
<1>7. sessions'[b] = session /\ \A x \in Browser \ {b} : sessions'[x] = sessions[x]
  BY <1>6 DEF TypeInv, AdminTypeOK
<1>8. SessionsTyped'
  BY <1>5, <1>6 DEF TypeInv, AdminTypeOK, SessionsTyped
<1>9. login'[b] = [l EXCEPT !.phase = "audit"] /\ \A x \in Browser \ {b} : login'[x] = login[x]
  BY DEF Create, TypeInv, AdminTypeOK
<1>10. login'[b] \in Login /\ login'[b].phase = "audit"
  BY <1>1, <1>9 DEF Login
<1>11. LoginsTyped' /\ LoginsKept
  BY <1>9, <1>10 DEF Create, TypeInv, AdminTypeOK, LoginsTyped, LoginsKept
<1>12. CodesTyped' /\ CodesKept /\ ChangesTyped' /\ Untouched
  BY Unchanged DEF Create, TypeInv, Untouched
<1>13. TypeInv'
  BY <1>8, <1>11, <1>12, TypeParts
<1>14. session.late \/ (~l.late /\ l.began = term[l.admin])
  BY Zenon
<1>15. session.code = l.code /\ session.admin = l.admin /\ session.term = l.term
  OBVIOUS
<1> HIDE DEF session, l
<1> QED
  BY <1>1, <1>7, <1>10, <1>11, <1>12, <1>13, <1>14, <1>15 DEF l

LEMMA LoginEnds ==
    ASSUME TypeInv, NEW b \in Browser, login' = [login EXCEPT ![b] = None]
    PROVE  LoginsTyped' /\ LoginsKept
  BY DEF TypeInv, AdminTypeOK, LoginsTyped, LoginsKept, None

LEMMA SessionEnds ==
    ASSUME TypeInv, NEW b \in Browser, sessions' = [sessions EXCEPT ![b] = None]
    PROVE  SessionsTyped' /\ SessionsKept
  BY DEF TypeInv, AdminTypeOK, SessionsTyped, SessionsKept, SameSession

LEMMA RequestsKeep ==
    ASSUME TypeInv, NEW b \in Browser,
           \/ CreateFails(b) \/ AuditSucceeds(b) \/ AuditFails(b)
           \/ Request(b) \/ Logout(b)
    PROVE  TypeInv' /\ Kept
<1>1. Untouched /\ codes' = codes /\ change' = change
  BY DEF CreateFails, AuditSucceeds, AuditFails, Request, Logout, Untouched
<1>2. SessionsTyped' /\ SessionsKept
  <2>1. CASE CreateFails(b)
    BY <2>1, Unchanged DEF CreateFails, TypeInv
  <2>2. CASE AuditSucceeds(b)
    BY <2>2, Holding DEF AuditSucceeds, TypeInv
  <2>3. CASE AuditFails(b) \/ Logout(b)
    BY <2>3, SessionEnds DEF AuditFails, Logout
  <2>4. CASE Request(b)
    BY <2>4, Touching DEF Request, Authenticated, TypeInv
  <2> QED
    BY <2>1, <2>2, <2>3, <2>4
<1>3. LoginsTyped' /\ LoginsKept
  <2>1. CASE CreateFails(b) \/ AuditSucceeds(b) \/ AuditFails(b)
    BY <2>1, LoginEnds DEF CreateFails, AuditSucceeds, AuditFails
  <2>2. CASE Request(b) \/ Logout(b)
    BY <2>2, Unchanged DEF Request, Logout, TypeInv
  <2> QED
    BY <2>1, <2>2
<1>4. CodesTyped' /\ CodesKept /\ ChangesTyped'
  BY <1>1, Unchanged DEF TypeInv
<1> QED
  BY <1>1, <1>2, <1>3, <1>4, TypeParts DEF Kept

LEMMA RequestChangeKeeps ==
    ASSUME TypeInv, NEW b \in Browser, NEW target \in Admin, NEW role \in Role \union {"none"},
           RequestChange(b, target, role)
    PROVE  TypeInv' /\ Kept
<1>1. sessions[b] # None /\ sessions[b].admin \in Admin
  BY Rows DEF RequestChange, Authenticated, Session, TypeInv
<1>2. SessionsTyped' /\ SessionsKept
  BY <1>1, Touching DEF RequestChange, TypeInv
<1>3. ChangesTyped'
  BY <1>1 DEF RequestChange, ChangesTyped, Change, TypeInv, AdminTypeOK
<1>4. Untouched /\ CodesTyped' /\ CodesKept /\ LoginsTyped' /\ LoginsKept
  BY Unchanged DEF RequestChange, Untouched, TypeInv
<1> QED
  BY <1>2, <1>3, <1>4, TypeParts DEF Kept

LEMMA ConsumeReplyLostKeeps ==
    ASSUME TypeInv, NEW a \in Admin, ConsumeReplyLost(a)
    PROVE  TypeInv' /\ Kept
<1>1. CodesTyped' /\ CodesKept
  BY DEF ConsumeReplyLost, TypeInv, AdminTypeOK, CodesTyped, CodesKept, SameCode
<1>2. Untouched /\ SessionsTyped' /\ SessionsKept /\ ChangesTyped' /\ LoginsTyped' /\ LoginsKept
  BY Unchanged DEF ConsumeReplyLost, Untouched, TypeInv
<1> QED
  BY <1>1, <1>2, TypeParts DEF Kept

LEMMA LoadKeeps ==
    ASSUME TypeInv, NEW b \in Browser, Load(b)
    PROVE  /\ TypeInv' /\ Kept
           /\ admins' = admins /\ lock = "free" /\ lock' \in {b, lock}
           /\ \A x \in Browser \ {b} : change'[x] = change[x]
           /\ change'[b] # None =>
                /\ Permitted(change[b]) /\ lock' = b /\ change[b] \in Change
                /\ change'[b].actor = change[b].actor
                /\ change'[b].target = change[b].target
                /\ change'[b].role = change[b].role
<1>1. change[b] \in Change /\ change[b].phase = "wait" /\ lock = "free"
  BY Rows DEF Load, None, TypeInv
<1>2. \A x \in Browser \ {b} : change'[x] = change[x]
  BY DEF Load, TypeInv, AdminTypeOK
<1>3. change'[b] = IF Permitted(change[b]) THEN [change[b] EXCEPT !.phase = "locked"] ELSE None
  BY DEF Load, TypeInv, AdminTypeOK
<1>4. change'[b] # None =>
        /\ Permitted(change[b]) /\ lock' = b
        /\ change'[b].actor = change[b].actor
        /\ change'[b].target = change[b].target
        /\ change'[b].role = change[b].role
  BY <1>1, <1>3 DEF Load, Change
<1>5. change'[b] \in Change \union {None}
  BY <1>1, <1>3 DEF Change
<1>6. ChangesTyped' /\ lock' \in Browser \union {"free"} /\ lock' \in {b, lock}
  BY <1>5 DEF Load, TypeInv, AdminTypeOK, ChangesTyped
<1>7. UNCHANGED <<admins, codes, sessions, login, issuing, issued, term>>
  BY DEF Load
<1>8. Kept
  BY <1>7, Unchanged DEF Kept, TypeInv
<1>9. TypeInv'
  BY <1>6, <1>7 DEF TypeInv, AdminTypeOK, ChangesTyped
<1> QED
  BY <1>1, <1>2, <1>4, <1>6, <1>7, <1>8, <1>9

LEMMA ChangeFailsKeeps ==
    ASSUME TypeInv, NEW b \in Browser, ChangeFails(b)
    PROVE  /\ TypeInv' /\ Kept /\ admins' = admins
           /\ change'[b] = None /\ \A x \in Browser \ {b} : change'[x] = change[x]
           /\ lock # b => lock' = lock
<1>1. change'[b] = None /\ \A x \in Browser \ {b} : change'[x] = change[x]
  BY DEF ChangeFails, TypeInv, AdminTypeOK
<1>2. ChangesTyped' /\ lock' \in Browser \union {"free"} /\ (lock # b => lock' = lock)
  BY DEF ChangeFails, TypeInv, AdminTypeOK, ChangesTyped
<1>3. UNCHANGED <<admins, codes, sessions, login, issuing, issued, term>>
  BY DEF ChangeFails
<1> QED
  BY <1>1, <1>2, <1>3, Unchanged DEF Kept, TypeInv, AdminTypeOK, ChangesTyped

LEMMA SetRoleKeeps ==
    ASSUME TypeInv, NEW b \in Browser, SetRole(b)
    PROVE  /\ TypeInv' /\ Kept
           /\ change[b].phase = "locked" /\ change[b] # None
           /\ change'[b] = None /\ \A x \in Browser \ {b} : change'[x] = change[x]
           /\ admins'[Root] = IF change[b].target = Root THEN [role |-> change[b].role, active |-> TRUE]
                                                         ELSE admins[Root]
<1> DEFINE c == change[b]
           row == [role |-> c.role, active |-> TRUE]
<1>1. c \in Change /\ c.phase = "locked" /\ c # None
  BY Rows DEF SetRole, None, TypeInv
<1>2. c.target \in Admin /\ c.role \in Role
  BY <1>1 DEF Change, SetRole
<1>3. row \in [role : Role \union {"none"}, active : BOOLEAN] /\ row.role # "none"
  BY <1>2 DEF Role
<1>4. admins' = [admins EXCEPT ![c.target] = row]
  BY DEF SetRole
<1>5. admins'[c.target] = row /\ \A a \in Admin \ {c.target} : admins'[a] = admins[a]
  BY <1>2, <1>4 DEF TypeInv, AdminTypeOK
<1> HIDE DEF row
<1>6. admins' \in [Admin -> [role : Role \union {"none"}, active : BOOLEAN]]
  BY <1>2, <1>3, <1>4 DEF TypeInv, AdminTypeOK
<1>7. \A a \in Admin : admins'[a].role = "none" => ~admins'[a].active
  BY <1>3, <1>5 DEF TypeInv, AdminTypeOK
<1>8. change'[b] = None /\ \A x \in Browser \ {b} : change'[x] = change[x]
  BY DEF SetRole, TypeInv, AdminTypeOK
<1>9. ChangesTyped' /\ lock' = "free"
  BY DEF SetRole, TypeInv, AdminTypeOK, ChangesTyped
<1>10. UNCHANGED <<codes, sessions, login, issuing, issued, term>>
  BY DEF SetRole
<1>11. TypeInv'
  BY <1>6, <1>7, <1>9, <1>10 DEF TypeInv, AdminTypeOK, ChangesTyped
<1>12. Kept
  BY <1>10, Unchanged DEF Kept, TypeInv
<1>13. admins'[Root] = IF c.target = Root THEN row ELSE admins[Root]
  BY <1>5, RootAssumption
<1> QED
  BY <1>1, <1>8, <1>11, <1>12, <1>13 DEF row

LEMMA RemoveKeeps ==
    ASSUME TypeInv, NEW b \in Browser, Remove(b)
    PROVE  /\ TypeInv' /\ Kept
           /\ change[b].phase = "locked" /\ change[b] # None /\ change[b].role = "none"
           /\ change[b].target \in Admin
           /\ change'[b] = None /\ \A x \in Browser \ {b} : change'[x] = change[x]
           /\ \A a \in Admin \ {change[b].target} : admins'[a] = admins[a] /\ term'[a] = term[a]
           /\ codes'[change[b].target] = None
           /\ \A x \in Browser : sessions'[x] # None => sessions'[x].admin # change[b].target
<1> DEFINE c == change[b]
<1>1. c \in Change /\ c.phase = "locked" /\ c # None /\ c.role = "none"
  BY Rows DEF Remove, None, TypeInv
<1>2. c.target \in Admin
  BY <1>1 DEF Change
<1>3. /\ admins' = [admins EXCEPT ![c.target].active = FALSE]
      /\ codes' = [codes EXCEPT ![c.target] = None]
      /\ term' = [term EXCEPT ![c.target] = IF admins[c.target].active THEN @ + 1 ELSE @]
      /\ admins[c.target].active => term[c.target] < MaxRemovals
  BY DEF Remove
<1>4. \A a \in Admin \ {c.target} : admins'[a] = admins[a] /\ term'[a] = term[a]
  BY <1>2, <1>3 DEF TypeInv, AdminTypeOK
<1>5. admins'[c.target] = [admins[c.target] EXCEPT !.active = FALSE]
  BY <1>2, <1>3 DEF TypeInv, AdminTypeOK
<1>6. admins[c.target] \in [role : Role \union {"none"}, active : BOOLEAN]
  BY <1>2 DEF TypeInv, AdminTypeOK
<1>7. admins'[c.target] \in [role : Role \union {"none"}, active : BOOLEAN] /\ ~admins'[c.target].active
  BY <1>5, <1>6
<1>8. admins' \in [Admin -> [role : Role \union {"none"}, active : BOOLEAN]]
  BY <1>3, <1>4, <1>7 DEF TypeInv, AdminTypeOK
<1>9. \A a \in Admin : admins'[a].role = "none" => ~admins'[a].active
  BY <1>4, <1>7 DEF TypeInv, AdminTypeOK
<1>10. term'[c.target] \in 0 .. MaxRemovals
  <2>1. term[c.target] \in 0 .. MaxRemovals
    BY <1>2 DEF TypeInv, AdminTypeOK
  <2>2. term'[c.target] = IF admins[c.target].active THEN term[c.target] + 1 ELSE term[c.target]
    BY <1>2, <1>3 DEF TypeInv, AdminTypeOK
  <2>3. CASE admins[c.target].active
    BY <1>3, <2>1, <2>2, <2>3, AdminBounds
  <2>4. CASE ~admins[c.target].active
    BY <2>1, <2>2, <2>4
  <2> QED
    BY <2>3, <2>4
<1>11. term' \in [Admin -> 0 .. MaxRemovals]
  BY <1>3, <1>4, <1>10 DEF TypeInv, AdminTypeOK
<1>12. CodesTyped' /\ CodesKept /\ codes'[c.target] = None
  BY <1>2, <1>3 DEF TypeInv, AdminTypeOK, CodesTyped, CodesKept, SameCode
<1>13. SessionsTyped' /\ SessionsKept
  <2> DEFINE S == {x \in Browser : sessions[x] # None /\ sessions[x].admin = c.target}
  <2>1. sessions' = [x \in Browser |-> IF x \in S THEN None ELSE sessions[x]]
    BY DEF Remove
  <2> QED
    BY <2>1, SessionsEnd DEF TypeInv
<1>14. \A x \in Browser : sessions'[x] # None => sessions'[x].admin # c.target
  BY DEF Remove
<1>15. change'[b] = None /\ (\A x \in Browser \ {b} : change'[x] = change[x]) /\ ChangesTyped'
  BY DEF Remove, TypeInv, AdminTypeOK, ChangesTyped
<1>16. UNCHANGED <<login, issuing, issued>> /\ lock' = "free"
  BY DEF Remove
<1>17. LoginsTyped' /\ LoginsKept
  BY <1>16, Unchanged DEF TypeInv
<1>18. TypeInv'
  BY <1>8, <1>9, <1>11, <1>12, <1>13, <1>15, <1>16, <1>17
     DEF TypeInv, AdminTypeOK, SessionsTyped, CodesTyped, LoginsTyped, ChangesTyped
<1> QED
  BY <1>1, <1>2, <1>4, <1>12, <1>13, <1>14, <1>15, <1>17, <1>18 DEF Kept

LEMMA TickKeeps ==
    ASSUME TypeInv, AdminTick
    PROVE  TypeInv' /\ Kept
  BY Ticking, Unchanged, TypeParts DEF TypeInv, AdminTick, Untouched, Kept

LEMMA RestartKeeps ==
    ASSUME TypeInv, AdminRestart
    PROVE  /\ TypeInv' /\ Kept
           /\ admins' = [admins EXCEPT ![Root] = [role |-> "owner", active |-> TRUE]]
           /\ \A b \in Browser : change'[b] = None
<1>1. /\ admins' = [admins EXCEPT ![Root] = [role |-> "owner", active |-> TRUE]]
      /\ \A b \in Browser : change'[b] = None
      /\ lock' = "free" /\ issuing' = NoOne
      /\ UNCHANGED <<codes, issued, term>>
  BY DEF AdminRestart
<1>2. /\ admins' \in [Admin -> [role : Role \union {"none"}, active : BOOLEAN]]
      /\ \A a \in Admin : admins'[a].role = "none" => ~admins'[a].active
  <2> DEFINE row == [role |-> "owner", active |-> TRUE]
  <2>1. row \in [role : Role \union {"none"}, active : BOOLEAN] /\ row.role # "none"
    BY DEF Role
  <2>2. admins'[Root] = row /\ \A a \in Admin \ {Root} : admins'[a] = admins[a]
    BY <1>1, RootAssumption DEF TypeInv, AdminTypeOK
  <2> HIDE DEF row
  <2> QED
    BY <1>1, <2>1, <2>2 DEF TypeInv, AdminTypeOK, row
<1>3. SessionsTyped' /\ SessionsKept
  <2> DEFINE S == {x \in Browser : sessions[x] # None /\ ~sessions[x].held}
  <2>1. sessions' = [x \in Browser |-> IF x \in S THEN None ELSE sessions[x]]
    BY DEF AdminRestart
  <2> QED
    BY <2>1, SessionsEnd DEF TypeInv
<1>4. LoginsTyped' /\ LoginsKept
  BY DEF AdminRestart, LoginsTyped, LoginsKept, None
<1>5. ChangesTyped'
  BY DEF AdminRestart, ChangesTyped
<1>6. CodesTyped' /\ CodesKept
  BY <1>1, Unchanged DEF TypeInv
<1>7. TypeInv'
  BY <1>1, <1>2, <1>3, <1>4, <1>5, <1>6
     DEF TypeInv, AdminTypeOK, SessionsTyped, CodesTyped, LoginsTyped, ChangesTyped
<1> QED
  BY <1>1, <1>3, <1>4, <1>6, <1>7 DEF Kept
-----------------------------------------------------------------------------
LEMMA TypeStep == TypeInv /\ [AdminNext]_adminVars => TypeInv'
<1> SUFFICES ASSUME TypeInv, [AdminNext]_adminVars
             PROVE  TypeInv'
  OBVIOUS
<1>1. ASSUME NEW a \in Admin, FindActive(a) \/ ConsumeReplyLost(a)
      PROVE  TypeInv'
  BY <1>1, IssueKeeps, ConsumeReplyLostKeeps
<1>2. CASE Replace
  BY <1>2, ReplaceKeeps
<1>3. CASE ReplaceFails
  BY <1>3, IssueKeeps, RootAssumption
<1>4. ASSUME NEW b \in Browser, NEW a \in Admin, Consume(b, a)
      PROVE  TypeInv'
  BY <1>4, ConsumeKeeps
<1>5. ASSUME NEW b \in Browser,
             \/ Create(b) \/ CreateFails(b) \/ AuditSucceeds(b) \/ AuditFails(b)
             \/ Request(b) \/ Logout(b)
      PROVE  TypeInv'
  BY <1>5, CreateKeeps, RequestsKeep
<1>6. ASSUME NEW b \in Browser, NEW target \in Admin, NEW role \in Role \union {"none"},
             RequestChange(b, target, role)
      PROVE  TypeInv'
  BY <1>6, RequestChangeKeeps
<1>7. ASSUME NEW b \in Browser, Load(b) \/ SetRole(b) \/ Remove(b) \/ ChangeFails(b)
      PROVE  TypeInv'
  BY <1>7, LoadKeeps, SetRoleKeeps, RemoveKeeps, ChangeFailsKeeps
<1>8. CASE AdminTick \/ AdminRestart
  BY <1>8, TickKeeps, RestartKeeps
<1>9. CASE UNCHANGED adminVars
  BY <1>9 DEF adminVars, TypeInv, AdminTypeOK
<1> QED
  BY <1>1, <1>2, <1>3, <1>4, <1>5, <1>6, <1>7, <1>8, <1>9 DEF AdminNext

\* The tables and the requests in progress keep their types, and no row
\* outlives its lifetime: what is left of it is positive while the row is used.
THEOREM AdminTypeCorrect == AdminSpec => []AdminTypeOK
<1>1. TypeInv => AdminTypeOK
  BY DEF TypeInv
<1> QED
  BY <1>1, TypeInit, TypeStep, PTL DEF AdminSpec
-----------------------------------------------------------------------------
(* Role changes: whoever passed ValidateRoleChange holds the lock, so what  *)
(* it found stays true until the change is carried out.                     *)
RolesInv ==
    /\ admins[Root] = [role |-> "owner", active |-> TRUE]
    /\ \A b \in Browser : change[b].phase = "locked" =>
        /\ lock = b
        /\ IsOwner(change[b].actor)
        /\ change[b].target = Root => change[b].role = "owner"

RolesStep ==
    admins' # admins =>
        /\ admins'[Root] = admins[Root]
        /\ \E b \in Browser : change[b] # None /\ change'[b] = None /\ IsOwner(change[b].actor)

LEMMA RolesInit == AdminInit => RolesInv
<1> SUFFICES ASSUME AdminInit
             PROVE  RolesInv
  OBVIOUS
<1>1. admins[Root] \in {[role |-> "none", active |-> FALSE]} \union [role : Role, active : BOOLEAN]
  BY RootAssumption DEF AdminInit
<1>2. admins[Root].active /\ admins[Root].role = "owner"
  BY DEF AdminInit, IsOwner
<1>3. admins[Root] \in [role : Role, active : BOOLEAN]
  BY <1>1, <1>2
<1>4. admins[Root].active \in BOOLEAN
  BY <1>3
<1>5. admins[Root].active = TRUE
  BY <1>2, <1>4, Zenon
<1>6. admins[Root] = [role |-> "owner", active |-> TRUE]
  BY <1>2, <1>3, <1>5
<1>7. \A b \in Browser : change[b].phase # "locked"
  BY DEF AdminInit, None
<1> QED
  BY <1>6, <1>7 DEF RolesInv

\* A step that leaves the administrators, the lock and the locked changes
\* alone, or only begins a change that is not locked yet.
LEMMA RolesKept ==
    ASSUME RolesInv, UNCHANGED <<admins, lock>>,
           \A x \in Browser : change'[x].phase = "locked" => change'[x] = change[x]
    PROVE  RolesInv' /\ RolesStep
  BY DEF RolesInv, RolesStep, IsOwner

LEMMA RolesNext == TypeInv /\ RolesInv /\ [AdminNext]_adminVars => RolesInv' /\ RolesStep
<1> SUFFICES ASSUME TypeInv, RolesInv, [AdminNext]_adminVars
             PROVE  RolesInv' /\ RolesStep
  OBVIOUS
<1>1. ASSUME UNCHANGED <<admins, lock, change>>
      PROVE  RolesInv' /\ RolesStep
  BY <1>1, RolesKept
<1>2. ASSUME NEW b \in Browser, NEW target \in Admin, NEW role \in Role \union {"none"},
             RequestChange(b, target, role)
      PROVE  RolesInv' /\ RolesStep
  <2>1. UNCHANGED <<admins, lock>> /\ change'[b].phase = "wait"
        /\ \A x \in Browser \ {b} : change'[x] = change[x]
    BY <1>2 DEF RequestChange, TypeInv, AdminTypeOK
  <2> QED
    BY <2>1, RolesKept
<1>3. ASSUME NEW b \in Browser, Load(b)
      PROVE  RolesInv' /\ RolesStep
  <2>1. \A x \in Browser : change[x].phase # "locked"
    BY <1>3, LoadKeeps, BrowserAssumption DEF RolesInv
  <2>2. admins' = admins /\ \A x \in Browser \ {b} : change'[x].phase # "locked"
    BY <1>3, <2>1, LoadKeeps
  <2>3. CASE change'[b] = None
    BY <2>2, <2>3 DEF RolesInv, RolesStep, None
  <2>4. CASE change'[b] # None
    <3>1. /\ Permitted(change[b]) /\ lock' = b
          /\ change'[b].actor = change[b].actor
          /\ change'[b].target = change[b].target
          /\ change'[b].role = change[b].role
      BY <1>3, <2>4, LoadKeeps
    <3>2. IsOwner(change[b].actor) /\ (change[b].target = Root => change[b].role = "owner")
      BY <3>1, Zenon DEF Permitted
    <3> QED
      BY <2>2, <3>1, <3>2 DEF RolesInv, RolesStep, IsOwner
  <2> QED
    BY <2>3, <2>4
<1>4. ASSUME NEW b \in Browser, SetRole(b) \/ Remove(b)
      PROVE  RolesInv' /\ RolesStep
  <2>1. /\ change[b].phase = "locked" /\ change[b] # None /\ change'[b] = None
        /\ \A x \in Browser \ {b} : change'[x] = change[x]
    BY <1>4, SetRoleKeeps, RemoveKeeps
  <2>2. \A x \in Browser : change'[x].phase # "locked"
    BY <2>1 DEF RolesInv, None
  <2>3. admins'[Root] = admins[Root]
    <3>1. CASE SetRole(b)
      BY <3>1, <2>1, SetRoleKeeps DEF RolesInv
    <3>2. CASE Remove(b)
      <4>1. change[b].target # Root
        BY <3>2, <2>1, RemoveKeeps DEF RolesInv
      <4> QED
        BY <3>2, <4>1, RemoveKeeps, RootAssumption
    <3> QED
      BY <1>4, <3>1, <3>2
  <2> QED
    BY <2>1, <2>2, <2>3 DEF RolesInv, RolesStep
<1>5. ASSUME NEW b \in Browser, ChangeFails(b)
      PROVE  RolesInv' /\ RolesStep
  <2>1. \A x \in Browser : change'[x].phase = "locked" => x # b /\ change'[x] = change[x] /\ lock' = lock
    BY <1>5, ChangeFailsKeeps DEF RolesInv, None
  <2> QED
    BY <1>5, <2>1, ChangeFailsKeeps DEF RolesInv, RolesStep, IsOwner
<1>6. CASE AdminRestart
  <2>1. admins' = [admins EXCEPT ![Root] = admins[Root]]
    BY <1>6, RestartKeeps DEF RolesInv
  <2>2. admins' = admins
    BY <2>1, RootAssumption DEF TypeInv, AdminTypeOK
  <2>3. \A x \in Browser : change'[x].phase # "locked"
    BY <1>6, RestartKeeps DEF None
  <2> QED
    BY <2>2, <2>3 DEF RolesInv, RolesStep
<1>7. CASE UNCHANGED adminVars
  BY <1>1, <1>7 DEF adminVars
<1>8. ASSUME NEW a \in Admin, NEW b \in Browser,
             \/ Consume(b, a) \/ Create(b) \/ CreateFails(b) \/ AuditSucceeds(b) \/ AuditFails(b)
             \/ Request(b) \/ Logout(b)
      PROVE  UNCHANGED <<admins, lock, change>>
  BY <1>8 DEF Consume, Create, CreateFails, AuditSucceeds, AuditFails, Request, Logout
<1>9. ASSUME NEW a \in Admin, FindActive(a) \/ ConsumeReplyLost(a) \/ Replace \/ ReplaceFails \/ AdminTick
      PROVE  UNCHANGED <<admins, lock, change>>
  BY <1>9 DEF FindActive, ConsumeReplyLost, Replace, ReplaceFails, AdminTick
<1> QED
  BY <1>1, <1>2, <1>3, <1>4, <1>5, <1>6, <1>7, <1>8, <1>9, RootAssumption DEF AdminNext

\* Only an active owner, active at that moment, changes roles, and nobody
\* changes the root owner's: for any number of browsers sending changes at the
\* same time.
THEOREM RolesAlwaysChangeByOwners == AdminSpec => RolesChangeByOwners
<1>1. AdminInit => TypeInv /\ RolesInv
  BY TypeInit, RolesInit
<1>2. TypeInv /\ RolesInv /\ [AdminNext]_adminVars => (TypeInv /\ RolesInv)' /\ [RolesStep]_adminVars
  BY TypeStep, RolesNext
<1>3. RolesStep <=> (admins' # admins =>
        /\ admins'[Root] = admins[Root]
        /\ \E b \in Browser : change[b] # None /\ change'[b] = None /\ IsOwner(change[b].actor))
  BY DEF RolesStep
<1>4. AdminSpec => [][RolesStep]_adminVars
  BY <1>1, <1>2, PTL DEF AdminSpec
<1> QED
  BY <1>3, <1>4, PTL DEF RolesChangeByOwners
-----------------------------------------------------------------------------
(* Codes, logins that are about to create their session, and sessions: no   *)
(* two of them stem from one code, and those that are not late belong to    *)
(* the present term of their administrator.                                 *)
Creating(b) == login[b].phase = "create"

OneSessionPerCode ==
    /\ \A a \in Admin : codes[a] # None => codes[a].id <= issued
    /\ \A b \in Browser : Creating(b) => login[b].code <= issued
    /\ \A b \in Browser : sessions[b] # None => sessions[b].code <= issued
    /\ \A a, d \in Admin : codes[a] # None /\ codes[d] # None /\ codes[a].id = codes[d].id => a = d
    /\ \A x, y \in Browser : Creating(x) /\ Creating(y) /\ login[x].code = login[y].code => x = y
    /\ \A x, y \in Browser :
          sessions[x] # None /\ sessions[y] # None /\ sessions[x].code = sessions[y].code => x = y
    /\ \A a \in Admin, b \in Browser : codes[a] # None /\ Creating(b) => codes[a].id # login[b].code
    /\ \A a \in Admin, b \in Browser :
          codes[a] # None /\ sessions[b] # None => codes[a].id # sessions[b].code
    /\ \A x, y \in Browser : Creating(x) /\ sessions[y] # None => login[x].code # sessions[y].code

PresentTerm ==
    /\ \A a \in Admin : codes[a] # None => codes[a].late \/ codes[a].term = term[a]
    /\ \A b \in Browser : Creating(b) => login[b].late \/ login[b].term = login[b].began
    /\ \A b \in Browser : sessions[b] # None =>
          sessions[b].late \/ sessions[b].term = term[sessions[b].admin]

EarnedInv == OneSessionPerCode /\ PresentTerm

LEMMA EarnedInit == AdminInit => EarnedInv
  BY DEF AdminInit, EarnedInv, OneSessionPerCode, PresentTerm, Creating, None

\* When nothing new appears.
LEMMA OneSessionPerCodeKept ==
    ASSUME TypeInv, TypeInv', OneSessionPerCode, Kept, issued' = issued
    PROVE  OneSessionPerCode'
<1>1. \A b \in Browser : Creating(b)' => Creating(b) /\ login'[b] = login[b]
  BY DEF Kept, LoginsKept, Creating
<1>2. \A b \in Browser : sessions'[b] # None => sessions[b] # None /\ sessions'[b].code = sessions[b].code
  BY DEF Kept, SessionsKept, SameSession
<1>3. \A a \in Admin : codes'[a] # None => codes[a] # None /\ codes'[a].id = codes[a].id
  BY DEF Kept, CodesKept, SameCode
<1> QED
  BY <1>1, <1>2, <1>3 DEF OneSessionPerCode

LEMMA PresentTermKept ==
    ASSUME TypeInv, PresentTerm, Kept, term' = term
    PROVE  PresentTerm'
  BY DEF Kept, LoginsKept, Creating, SessionsKept, SameSession, CodesKept, SameCode, PresentTerm

LEMMA EarnedReplace ==
    ASSUME TypeInv, EarnedInv, Replace
    PROVE  EarnedInv'
<1>1. issued \in Nat /\ issued' = issued + 1 /\ term' = term
  BY ReplaceKeeps, AdminBounds DEF TypeInv, AdminTypeOK, Replace
<1>2. \A b \in Browser : Creating(b)' => Creating(b) /\ login'[b] = login[b] /\ login[b].code \in Nat
  BY ReplaceKeeps, Rows, AdminBounds DEF LoginsKept, Creating, None, Login, TypeInv
<1>3. \A b \in Browser : sessions'[b] # None =>
          SameSession(sessions'[b], sessions[b]) /\ sessions[b].code \in Nat
  BY ReplaceKeeps, Rows, AdminBounds DEF SessionsKept, SameSession, Session, TypeInv
<1>4. \A a \in Admin : codes'[a] # None =>
          \/ SameCode(codes'[a], codes[a]) /\ codes[a].id \in Nat
          \/ codes'[a].id = issued + 1 /\ (codes'[a].late \/ codes'[a].term = term[a])
  BY ReplaceKeeps, Rows, AdminBounds, <1>1 DEF SameCode, Code, TypeInv
<1>5. \A a, d \in Admin : codes'[a] # None /\ codes'[d] # None /\ codes'[a].id = codes'[d].id => a = d
  <2> SUFFICES ASSUME NEW a \in Admin, NEW d \in Admin, codes'[a] # None, codes'[d] # None,
                      codes'[a].id = codes'[d].id, a # d
               PROVE  FALSE
    OBVIOUS
  <2>1. codes'[a] = codes[a] \/ codes'[d] = codes[d]
    BY ReplaceKeeps
  <2>2. ASSUME NEW c \in Admin, codes'[c] = codes[c], codes'[c] # None
        PROVE  codes'[c].id # issued + 1
    BY <2>2, <1>1, Rows, AdminBounds DEF EarnedInv, OneSessionPerCode, Code, TypeInv
  <2>3. SameCode(codes'[a], codes[a]) /\ SameCode(codes'[d], codes[d])
    <3>1. \A c \in Admin : codes'[c] # None /\ ~SameCode(codes'[c], codes[c]) => codes'[c].id = issued + 1
      BY <1>4
    <3>2. \A c \in Admin : codes'[c] # None /\ SameCode(codes'[c], codes[c]) => codes'[c].id # issued + 1
      BY <1>1, <1>4, Rows, AdminBounds DEF SameCode, EarnedInv, OneSessionPerCode, Code, TypeInv
    <3> QED
      BY <2>1, <2>2, <3>1, <3>2
  <2> QED
    BY <2>3 DEF SameCode, EarnedInv, OneSessionPerCode
<1>6. OneSessionPerCode'
  <2>1. \A a \in Admin : codes'[a] # None => codes'[a].id <= issued'
    BY <1>1, <1>4 DEF SameCode, EarnedInv, OneSessionPerCode
  <2>2. \A b \in Browser : Creating(b)' => login'[b].code <= issued'
    BY <1>1, <1>2 DEF EarnedInv, OneSessionPerCode
  <2>3. \A b \in Browser : sessions'[b] # None => sessions'[b].code <= issued'
    BY <1>1, <1>3 DEF SameSession, EarnedInv, OneSessionPerCode
  <2>4. \A x, y \in Browser : Creating(x)' /\ Creating(y)' /\ login'[x].code = login'[y].code => x = y
    BY <1>2 DEF EarnedInv, OneSessionPerCode
  <2>5. \A x, y \in Browser :
          sessions'[x] # None /\ sessions'[y] # None /\ sessions'[x].code = sessions'[y].code => x = y
    BY <1>3 DEF SameSession, EarnedInv, OneSessionPerCode
  <2>6. \A a \in Admin, b \in Browser : codes'[a] # None /\ Creating(b)' => codes'[a].id # login'[b].code
    BY <1>1, <1>2, <1>4 DEF SameCode, EarnedInv, OneSessionPerCode
  <2>7. \A a \in Admin, b \in Browser :
          codes'[a] # None /\ sessions'[b] # None => codes'[a].id # sessions'[b].code
    BY <1>1, <1>3, <1>4 DEF SameCode, SameSession, EarnedInv, OneSessionPerCode
  <2>8. \A x, y \in Browser : Creating(x)' /\ sessions'[y] # None => login'[x].code # sessions'[y].code
    BY <1>2, <1>3 DEF SameSession, EarnedInv, OneSessionPerCode
  <2> QED
    BY <1>5, <2>1, <2>2, <2>3, <2>4, <2>5, <2>6, <2>7, <2>8 DEF OneSessionPerCode
<1>7. PresentTerm'
  BY <1>1, <1>2, <1>3, <1>4 DEF SameCode, SameSession, EarnedInv, PresentTerm
<1> QED
  BY <1>6, <1>7 DEF EarnedInv

\* The code leaves the table in the statement that starts the login.
LEMMA EarnedConsume ==
    ASSUME TypeInv, EarnedInv, NEW b \in Browser, NEW a \in Admin, Consume(b, a)
    PROVE  EarnedInv'
<1>1. issued' = issued /\ term' = term
  BY DEF Consume
<1>2. /\ codes'[a] = None /\ codes[a] # None
      /\ \A d \in Admin : codes'[d] # None => d # a /\ SameCode(codes'[d], codes[d])
  BY ConsumeKeeps DEF CodesKept
<1>3. \A x \in Browser : sessions'[x] # None => SameSession(sessions'[x], sessions[x])
  BY ConsumeKeeps DEF SessionsKept
<1>4. /\ login'[b].code = codes[a].id /\ login'[b].term = codes[a].term
      /\ login'[b].late = codes[a].late /\ login'[b].began = term[a]
      /\ \A x \in Browser \ {b} : login'[x] = login[x]
  BY ConsumeKeeps
<1>5. OneSessionPerCode'
  BY <1>1, <1>2, <1>3, <1>4
     DEF SameCode, SameSession, EarnedInv, OneSessionPerCode, Creating
<1>6. PresentTerm'
  BY <1>1, <1>2, <1>3, <1>4
     DEF SameCode, SameSession, EarnedInv, PresentTerm, Creating
<1> QED
  BY <1>5, <1>6 DEF EarnedInv

LEMMA EarnedCreate ==
    ASSUME TypeInv, EarnedInv, NEW b \in Browser, Create(b)
    PROVE  EarnedInv'
<1>1. issued' = issued /\ term' = term
  BY DEF Create
<1>2. \A d \in Admin : codes'[d] # None => SameCode(codes'[d], codes[d])
  BY CreateKeeps DEF CodesKept
<1>3. Creating(b) /\ \A x \in Browser : Creating(x)' => x # b /\ Creating(x) /\ login'[x] = login[x]
  BY CreateKeeps DEF LoginsKept, Creating
<1>4. /\ sessions'[b].code = login[b].code /\ sessions'[b].admin = login[b].admin
      /\ sessions'[b].term = login[b].term
      /\ sessions'[b].late \/ (~login[b].late /\ login[b].began = term[login[b].admin])
      /\ \A x \in Browser \ {b} : sessions'[x] = sessions[x]
  BY CreateKeeps
<1>5. OneSessionPerCode'
  <2>1. \A x \in Browser : sessions'[x] # None => sessions'[x].code <= issued
    BY <1>3, <1>4 DEF EarnedInv, OneSessionPerCode
  <2>2. \A x, y \in Browser :
          sessions'[x] # None /\ sessions'[y] # None /\ sessions'[x].code = sessions'[y].code => x = y
    BY <1>3, <1>4 DEF EarnedInv, OneSessionPerCode
  <2>3. \A d \in Admin, x \in Browser :
          codes'[d] # None /\ sessions'[x] # None => codes'[d].id # sessions'[x].code
    BY <1>2, <1>3, <1>4 DEF SameCode, EarnedInv, OneSessionPerCode
  <2>4. \A x, y \in Browser : Creating(x)' /\ sessions'[y] # None => login'[x].code # sessions'[y].code
    BY <1>3, <1>4 DEF EarnedInv, OneSessionPerCode
  <2> QED
    BY <1>1, <1>2, <1>3, <2>1, <2>2, <2>3, <2>4 DEF SameCode, EarnedInv, OneSessionPerCode
<1>6. PresentTerm'
  <2>1. sessions'[b].late \/ sessions'[b].term = term[sessions'[b].admin]
    BY <1>3, <1>4 DEF EarnedInv, PresentTerm
  <2> QED
    BY <1>1, <1>2, <1>3, <1>4, <2>1 DEF SameCode, EarnedInv, PresentTerm
<1> QED
  BY <1>5, <1>6 DEF EarnedInv

\* A removal begins a new term, and deletes what belongs to the old one.
LEMMA EarnedRemove ==
    ASSUME TypeInv, EarnedInv, NEW b \in Browser, Remove(b)
    PROVE  EarnedInv'
<1> DEFINE target == change[b].target
<1>1. OneSessionPerCode'
  BY RemoveKeeps, OneSessionPerCodeKept DEF EarnedInv, Remove
<1>2. /\ \A d \in Admin : codes'[d] # None => d # target /\ SameCode(codes'[d], codes[d])
      /\ \A d \in Admin \ {target} : term'[d] = term[d]
  BY RemoveKeeps DEF Kept, CodesKept
<1>3. \A x \in Browser : sessions'[x] # None =>
        /\ sessions'[x].admin \in Admin \ {target}
        /\ SameSession(sessions'[x], sessions[x])
  BY RemoveKeeps, Rows DEF Kept, SessionsKept, SameSession, Session, TypeInv
<1>4. \A x \in Browser : Creating(x)' => Creating(x) /\ login'[x] = login[x]
  BY RemoveKeeps DEF Kept, LoginsKept, Creating
<1>5. PresentTerm'
  BY <1>2, <1>3, <1>4 DEF SameCode, SameSession, EarnedInv, PresentTerm
<1> QED
  BY <1>1, <1>5 DEF EarnedInv

LEMMA EarnedKept ==
    ASSUME TypeInv, TypeInv', EarnedInv, Kept, issued' = issued, term' = term
    PROVE  EarnedInv'
  BY OneSessionPerCodeKept, PresentTermKept DEF EarnedInv

LEMMA EarnedStep == TypeInv /\ TypeInv' /\ EarnedInv /\ [AdminNext]_adminVars => EarnedInv'
<1> SUFFICES ASSUME TypeInv, TypeInv', EarnedInv, [AdminNext]_adminVars
             PROVE  EarnedInv'
  OBVIOUS
<1>1. ASSUME NEW a \in Admin, FindActive(a) \/ ConsumeReplyLost(a) \/ ReplaceFails
      PROVE  EarnedInv'
  <2>1. Kept
    BY <1>1, IssueKeeps, ConsumeReplyLostKeeps
  <2>2. issued' = issued /\ term' = term
    BY <1>1 DEF FindActive, ConsumeReplyLost, ReplaceFails
  <2> QED
    BY <2>1, <2>2, EarnedKept
<1>2. CASE Replace
  BY <1>2, EarnedReplace
<1>3. ASSUME NEW b \in Browser, NEW a \in Admin, Consume(b, a)
      PROVE  EarnedInv'
  BY <1>3, EarnedConsume
<1>4. ASSUME NEW b \in Browser, Create(b)
      PROVE  EarnedInv'
  BY <1>4, EarnedCreate
<1>5. ASSUME NEW b \in Browser,
             CreateFails(b) \/ AuditSucceeds(b) \/ AuditFails(b) \/ Request(b) \/ Logout(b)
      PROVE  EarnedInv'
  <2>1. issued' = issued /\ term' = term
    BY <1>5 DEF CreateFails, AuditSucceeds, AuditFails, Request, Logout
  <2> QED
    BY <1>5, <2>1, RequestsKeep, EarnedKept
<1>6. ASSUME NEW b \in Browser, NEW target \in Admin, NEW role \in Role \union {"none"},
             RequestChange(b, target, role)
      PROVE  EarnedInv'
  <2>1. issued' = issued /\ term' = term
    BY <1>6 DEF RequestChange
  <2> QED
    BY <1>6, <2>1, RequestChangeKeeps, EarnedKept
<1>7. ASSUME NEW b \in Browser, Load(b) \/ SetRole(b) \/ ChangeFails(b)
      PROVE  EarnedInv'
  <2>1. issued' = issued /\ term' = term
    BY <1>7 DEF Load, SetRole, ChangeFails
  <2>2. Kept
    BY <1>7, LoadKeeps, SetRoleKeeps, ChangeFailsKeeps
  <2> QED
    BY <2>1, <2>2, EarnedKept
<1>8. ASSUME NEW b \in Browser, Remove(b)
      PROVE  EarnedInv'
  BY <1>8, EarnedRemove
<1>9. CASE AdminTick \/ AdminRestart
  <2>1. issued' = issued /\ term' = term
    BY <1>9 DEF AdminTick, AdminRestart
  <2> QED
    BY <1>9, <2>1, TickKeeps, RestartKeeps, EarnedKept
<1>10. CASE UNCHANGED adminVars
  <2>1. UNCHANGED adminVars => Kept /\ issued' = issued /\ term' = term
    BY Unchanged DEF adminVars, Kept, TypeInv
  <2> QED
    BY <1>10, <2>1, EarnedKept
<1> QED
  BY <1>1, <1>2, <1>3, <1>4, <1>5, <1>6, <1>7, <1>8, <1>9, <1>10, RootAssumption DEF AdminNext

\* A code makes one session, and an accepted session belongs to the present
\* term of its administrator unless the removal came between two statements:
\* for any number of administrators, browsers and codes, and any lifetimes.
THEOREM SessionsAlwaysEarned == AdminSpec => []SessionsAreEarned
<1>1. AdminInit => TypeInv /\ EarnedInv
  BY TypeInit, EarnedInit
<1>2. TypeInv /\ EarnedInv /\ [AdminNext]_adminVars => (TypeInv /\ EarnedInv)'
  BY TypeStep, EarnedStep
<1>3. EarnedInv => SessionsAreEarned
  BY DEF EarnedInv, OneSessionPerCode, PresentTerm, SessionsAreEarned
<1> QED
  BY <1>1, <1>2, <1>3, PTL DEF AdminSpec
=============================================================================
