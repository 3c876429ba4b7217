-------------------------- MODULE OperationsProofs --------------------------
(***************************************************************************)
(* The parts around the core, each for any values of its constants: the    *)
(* notices about the REALITY target, the rotation of the bot token, the    *)
(* pruning of backups, the limits on guesses at login codes and the search *)
(* for REALITY targets; then their composition, which also inherits what   *)
(* AdministrationProofs shows of the administrators.                       *)
(***************************************************************************)
EXTENDS Operations, AdministrationProofs, FiniteSetTheorems, TLAPS
-----------------------------------------------------------------------------
(* RealityHealth.                                                           *)

\* The inductive invariant: what a check is about to do agrees with the row it
\* recorded, and a notice is due only for the health the row shows.
HealthInv ==
    /\ NoticesMatchHealth
    /\ row.pending # "none" => (row.pending = "failed" <=> ~row.healthy)
    /\ check.phase \in {"notify", "acknowledge"} =>
         check.target = row.target /\ check.notice = row.pending
    /\ check.phase = "acknowledge" => unheard \/ told = check.notice
-----------------------------------------------------------------------------
LEMMA HealthTypeInit == HealthInit => HealthTypeOK
  BY DEF HealthInit, HealthTypeOK, NoRow, NoCheck

LEMMA RowFields ==
    ASSUME HealthTypeOK
    PROVE  /\ row.healthy \in BOOLEAN
           /\ row.pending \in Notice \union {"none"}
           /\ row.pending # "none" => row.target \in Target
<1>1. CASE row = NoRow
  BY <1>1 DEF NoRow
<1>2. CASE row \in [target : Target, healthy : BOOLEAN, pending : Notice \union {"none"}]
  <2>1. row.healthy \in BOOLEAN
    BY <1>2, Zenon
  <2> QED
    BY <1>2, <2>1
<1> QED
  BY <1>1, <1>2 DEF HealthTypeOK

\* What is due after an observation is a notice or nothing, and it announces
\* the health that is recorded with it.
LEMMA DueIsNotice ==
    ASSUME HealthTypeOK, NEW target \in Target, NEW healthy \in BOOLEAN
    PROVE  Due(target, healthy) \in Notice \union {"none"}
  BY DEF HealthTypeOK, Due, Notice, NoRow, Adopted

LEMMA HealthTypeStep == HealthTypeOK /\ [HealthNext]_healthVars => HealthTypeOK'
<1> SUFFICES ASSUME HealthTypeOK, [HealthNext]_healthVars
             PROVE  HealthTypeOK'
  OBVIOUS
<1> USE DEF HealthTypeOK
<1>1. ASSUME NEW target \in Target \union {"none"}, Configure(target)
      PROVE  HealthTypeOK'
  BY <1>1 DEF Configure, toldVars
<1>2. CASE ReadTarget
  BY <1>2 DEF ReadTarget, NoCheck, toldVars
<1>3. ASSUME NEW healthy \in BOOLEAN, Record(healthy) \/ RecordReplyLost(healthy)
      PROVE  HealthTypeOK'
  <2>1. check.target \in Target
    BY <1>3 DEF Record, RecordReplyLost, NoCheck
  <2>2. Due(check.target, healthy) \in Notice \union {"none"}
    BY <2>1, DueIsNotice
  <2>3. row' \in [target : Target, healthy : BOOLEAN, pending : Notice \union {"none"}]
    BY <1>3, <2>1, <2>2 DEF Record, RecordReplyLost, Recorded
  <2>4. check' \in {NoCheck} \union [phase : {"notify", "acknowledge"}, target : Target, notice : Notice]
    BY <1>3, <2>1, <2>2 DEF Record, RecordReplyLost, NoCheck
  <2>5. told' \in Notice \union {"none"} /\ unheard' \in BOOLEAN /\ configured' = configured
    BY <1>3 DEF Record, RecordReplyLost, Forgets, toldVars
  <2> QED
    BY <2>3, <2>4, <2>5
<1>4. ASSUME NEW heard \in BOOLEAN, NEW audited \in BOOLEAN, Notify(heard, audited)
      PROVE  HealthTypeOK'
  <2>1. unheard' \in BOOLEAN
    BY <1>4 DEF Notify
  <2>2. told' \in Notice \union {"none"}
    BY <1>4 DEF Notify, NoCheck
  <2> QED
    BY <1>4, <2>1, <2>2 DEF Notify, NoCheck
<1>5. CASE Acknowledge
  <2>1. CASE row.target = check.target /\ row.pending = check.notice
    <3>1. row' = [row EXCEPT !.pending = "none"]
      BY <1>5, <2>1 DEF Acknowledge
    <3>2. row.pending # "none"
      BY <1>5, <2>1 DEF Acknowledge, NoCheck, Notice
    <3>3. row \in [target : Target, healthy : BOOLEAN, pending : Notice \union {"none"}]
      BY <3>2 DEF NoRow
    <3>4. row' \in [target : Target, healthy : BOOLEAN, pending : Notice \union {"none"}]
      BY <3>1, <3>3
    <3> QED
      BY <1>5, <3>4 DEF Acknowledge, toldVars
  <2>2. CASE ~(row.target = check.target /\ row.pending = check.notice)
    BY <1>5, <2>2 DEF Acknowledge, toldVars
  <2> QED
    BY <2>1, <2>2
<1>6. CASE CheckEnds
  BY <1>6 DEF CheckEnds, toldVars
<1>7. CASE UNCHANGED healthVars
  BY <1>7 DEF healthVars, toldVars
<1> QED
  BY <1>1, <1>2, <1>3, <1>4, <1>5, <1>6, <1>7 DEF HealthNext

LEMMA HealthInvInit == HealthInit => HealthInv
  BY DEF HealthInit, HealthInv, NoticesMatchHealth, NoRow, NoCheck

LEMMA HealthInvStep == HealthTypeOK /\ HealthInv /\ [HealthNext]_healthVars => HealthInv'
<1> SUFFICES ASSUME HealthTypeOK, HealthInv, [HealthNext]_healthVars
             PROVE  HealthInv'
  OBVIOUS
<1> USE DEF HealthInv, NoticesMatchHealth
<1>1. ASSUME NEW target \in Target \union {"none"}, Configure(target)
      PROVE  HealthInv'
  BY <1>1 DEF Configure, toldVars
<1>2. CASE ReadTarget
  BY <1>2 DEF ReadTarget, toldVars
<1>3. ASSUME NEW healthy \in BOOLEAN, Record(healthy) \/ RecordReplyLost(healthy)
      PROVE  HealthInv'
  <2> DEFINE target == check.target
             due == Due(target, healthy)
  <2>1. target \in Target
    BY <1>3 DEF Record, RecordReplyLost, HealthTypeOK, NoCheck
  <2>2. due \in Notice \union {"none"}
    BY <2>1, DueIsNotice
  <2>3. row'.target = target /\ (row'.healthy <=> healthy) /\ row'.pending = due
    BY <1>3 DEF Record, RecordReplyLost, Recorded
  <2>4. IF row.target # target THEN told' = "none" ELSE UNCHANGED <<told, unheard>>
    BY <1>3 DEF Record, RecordReplyLost, Adopted, Forgets, toldVars
  <2>5. row.healthy \in BOOLEAN
    BY RowFields
  <2>6. due # "none" => (due = "failed" <=> ~healthy)
    <3>1. CASE row.target # target
      BY <3>1 DEF Due, Adopted
    <3>2. CASE row.target = target /\ row.healthy # healthy
      BY <3>2 DEF Due, Adopted
    <3>3. CASE row.target = target /\ row.healthy = healthy
      BY <3>3 DEF Due, Adopted
    <3> QED
      BY <3>1, <3>2, <3>3
  <2>7. due = "none" => unheard' \/ (told' = "failed" <=> ~healthy)
    <3>1. CASE row.target # target
      BY <3>1, <2>4 DEF Due, Adopted
    <3>2. CASE row.target = target /\ row.healthy # healthy
      BY <3>2 DEF Due, Adopted
    <3>3. CASE row.target = target /\ row.healthy = healthy
      BY <3>3, <2>4 DEF Due, Adopted
    <3> QED
      BY <3>1, <3>2, <3>3
  <2>8. check'.phase \in {"notify", "acknowledge"} =>
          check'.target = target /\ check'.notice = due /\ check'.phase = "notify"
    <3>1. check \in [phase : {"record"}, target : Target, notice : {"none"}]
      BY <1>3 DEF Record, RecordReplyLost, NoCheck, HealthTypeOK
    <3>2. \/ check' = NoCheck
          \/ check' = [check EXCEPT !.phase = "notify", !.notice = due]
      BY <1>3 DEF Record, RecordReplyLost
    <3>3. CASE check' = NoCheck
      BY <3>3 DEF NoCheck
    <3>4. ASSUME NEW d, check' = [check EXCEPT !.phase = "notify", !.notice = d]
          PROVE  check'.target = check.target /\ check'.notice = d /\ check'.phase = "notify"
      BY <3>1, <3>4
    <3> QED
      BY <3>2, <3>3, <3>4
  <2> QED
    BY <2>3, <2>6, <2>7, <2>8
<1>4. ASSUME NEW heard \in BOOLEAN, NEW audited \in BOOLEAN, Notify(heard, audited)
      PROVE  HealthInv'
  <2>1. row' = row /\ check.notice = row.pending /\ (unheard' \/ told' = check.notice)
    BY <1>4 DEF Notify
  <2>2. row.pending # "none"
    BY <1>4, <2>1 DEF Notify, HealthTypeOK, NoCheck, Notice
  <2>3. check'.phase \in {"notify", "acknowledge"} =>
          check'.target = check.target /\ check'.notice = check.notice
    BY <1>4 DEF Notify, NoCheck, HealthTypeOK
  <2> QED
    BY <1>4, <2>1, <2>2, <2>3 DEF Notify
<1>5. CASE Acknowledge
  <2>1. /\ check.target = row.target /\ check.notice = row.pending
        /\ unheard \/ told = row.pending
    BY <1>5 DEF Acknowledge
  <2>2. row.pending # "none"
    BY <1>5, <2>1 DEF Acknowledge, HealthTypeOK, NoCheck, Notice
  <2>3. row' = [row EXCEPT !.pending = "none"] /\ check' = NoCheck /\ UNCHANGED <<told, unheard>>
    BY <1>5, <2>1 DEF Acknowledge, toldVars
  <2>4. row'.pending = "none" /\ (row'.healthy <=> row.healthy)
    BY <2>3 DEF HealthTypeOK, NoRow
  <2> QED
    BY <2>1, <2>2, <2>3, <2>4 DEF NoCheck
<1>6. CASE CheckEnds
  BY <1>6 DEF CheckEnds, NoCheck, toldVars
<1>7. CASE UNCHANGED healthVars
  BY <1>7 DEF healthVars, toldVars
<1> QED
  BY <1>1, <1>2, <1>3, <1>4, <1>5, <1>6, <1>7 DEF HealthNext

\* The type invariant of the health monitor.
THEOREM HealthTypeCorrect == HealthSpec => []HealthTypeOK
<1>1. HealthInit => HealthTypeOK
  BY HealthTypeInit
<1>2. HealthTypeOK /\ [HealthNext]_healthVars => HealthTypeOK'
  BY HealthTypeStep
<1> QED
  BY <1>1, <1>2, PTL DEF HealthSpec

\* Whatever step of a check is cut off: when no notice is due, the last one
\* heard matches the health of the target, unless the last one sent reached
\* nobody (HealthMonitor.Check, TelegramHealthNotifier.notify).
THEOREM NoticesAlwaysMatch == HealthSpec => []NoticesMatchHealth
<1>1. HealthInit => HealthInv
  BY HealthInvInit
<1>2. HealthTypeOK /\ HealthInv /\ [HealthNext]_healthVars => HealthInv'
  BY HealthInvStep
<1>3. HealthInv => NoticesMatchHealth
  BY DEF HealthInv
<1> QED
  BY <1>1, <1>2, <1>3, HealthTypeCorrect, PTL DEF HealthSpec
-----------------------------------------------------------------------------
(* BotToken.                                                                *)

Issued(token) == \E n \in 0 .. valid : token = Own(n)
Verified(r) == rotation[r].phase \in {"save", "swap"}

\* While no rotations of different tokens overlapped, those past their
\* verification agree on the token, it is the one stored once any of them is
\* about to swap, and while the client works it is the client's.
AgreeInv ==
    /\ \A q, r \in Rotation : Verified(q) /\ Verified(r) => rotation[q].token = rotation[r].token
    /\ \A r \in Rotation : rotation[r].phase = "swap" => stored = rotation[r].token
    /\ live = Own(valid) =>
         /\ \A r \in Rotation : Verified(r) => rotation[r].token = Own(valid)
         /\ stored # Nothing => stored = Own(valid)
         /\ stored = Nothing => valid = 0

TokenInv ==
    /\ live # Nothing => Issued(live)
    /\ stored # Nothing => Issued(stored)
    /\ \A r \in Rotation : rotation[r] # Idle => live # Nothing
    /\ \A r \in Rotation : Verified(r) => Issued(rotation[r].token)
    /\ ~overlapped => AgreeInv
-----------------------------------------------------------------------------
LEMMA OwnTokens ==
    /\ \A a, b : Own(a) = Own(b) => a = b
    /\ \A a : Own(a) # Nothing /\ Own(a) # Other /\ Own(a).bot = "own"
    /\ Other # Nothing /\ Other.bot # "own" /\ Nothing.bot # "own"
  BY DEF Own, Nothing, Other

LEMMA IssuedTokens ==
    ASSUME TokenTypeOK, NEW token, Issued(token)
    PROVE  token \in Token /\ token.bot = "own" /\ token # Nothing
<1>1. PICK n \in 0 .. valid : token = Own(n)
  BY DEF Issued
<1>2. n \in 0 .. MaxToken
  BY <1>1, MaxTokenAssumption DEF TokenTypeOK
<1> QED
  BY <1>1, <1>2, OwnTokens DEF Token

LEMMA Requests ==
    ASSUME TokenTypeOK, NEW r \in Rotation
    PROVE  \/ rotation[r] = Idle /\ rotation[r].phase = "idle"
           \/ /\ rotation[r] \in [phase : {"verify", "save", "swap"}, token : Token]
              /\ rotation[r] # Idle
              /\ rotation[r].token \in Token
  BY DEF TokenTypeOK, Idle

\* A request that takes its next step keeps its token.
LEMMA NextPhase ==
    ASSUME TokenTypeOK, NEW r \in Rotation, rotation[r] # Idle,
           NEW p \in {"verify", "save", "swap"},
           rotation' = [rotation EXCEPT ![r].phase = p]
    PROVE  /\ rotation' \in [Rotation -> {Idle} \union [phase : {"verify", "save", "swap"}, token : Token]]
           /\ \A q \in Rotation : rotation'[q].token = rotation[q].token
           /\ \A q \in Rotation \ {r} : rotation'[q] = rotation[q]
           /\ rotation'[r].phase = p
<1>1. rotation[r] \in [phase : {"verify", "save", "swap"}, token : Token]
  BY Requests
<1>2. rotation \in [Rotation -> {Idle} \union [phase : {"verify", "save", "swap"}, token : Token]]
  BY DEF TokenTypeOK
<1>3. rotation'[r] = [rotation[r] EXCEPT !.phase = p]
  BY <1>2
<1>4. [rotation[r] EXCEPT !.phase = p] \in [phase : {"verify", "save", "swap"}, token : Token]
  BY <1>1
<1>5. rotation'[r].phase = p /\ rotation'[r].token = rotation[r].token
  BY <1>1, <1>3
<1> QED
  BY <1>2, <1>3, <1>4, <1>5

\* A request that ends leaves the others as they are.
LEMMA Ends ==
    ASSUME TokenTypeOK, NEW r \in Rotation, rotation' = [rotation EXCEPT ![r] = Idle]
    PROVE  /\ rotation' \in [Rotation -> {Idle} \union [phase : {"verify", "save", "swap"}, token : Token]]
           /\ \A q \in Rotation \ {r} : rotation'[q] = rotation[q]
           /\ rotation'[r] = Idle
           /\ rotation'[r].phase = "idle"
  BY DEF TokenTypeOK, Idle
-----------------------------------------------------------------------------
LEMMA TokenTypeInit == TokenInit => TokenTypeOK
<1> SUFFICES ASSUME TokenInit
             PROVE  TokenTypeOK
  OBVIOUS
<1>1. valid \in 0 .. MaxToken
  BY MaxTokenAssumption DEF TokenInit
<1>2. stored \in Token \union {Nothing} /\ live \in Token \union {Nothing}
  BY DEF TokenInit
<1>3. rotation \in [Rotation -> {Idle} \union [phase : {"verify", "save", "swap"}, token : Token]]
  BY DEF TokenInit
<1>4. overlapped \in BOOLEAN
  BY DEF TokenInit
<1> QED
  BY <1>1, <1>2, <1>3, <1>4 DEF TokenTypeOK

LEMMA TokenTypeStep == TokenTypeOK /\ [TokenNext]_tokenVars => TokenTypeOK'
<1> SUFFICES ASSUME TokenTypeOK, [TokenNext]_tokenVars
             PROVE  TokenTypeOK'
  OBVIOUS
<1>1. CASE Reissue
  BY <1>1, MaxTokenAssumption DEF Reissue, TokenTypeOK
<1>2. ASSUME NEW r \in Rotation, NEW token \in Token, PutToken(r, token)
      PROVE  TokenTypeOK'
  BY <1>2 DEF PutToken, TokenTypeOK
<1>3. ASSUME NEW r \in Rotation, Verify(r)
      PROVE  TokenTypeOK'
  <2>1. rotation[r] # Idle
    BY <1>3 DEF Verify, Idle
  <2> QED
    BY <1>3, <2>1, NextPhase DEF Verify, TokenTypeOK
<1>4. ASSUME NEW r \in Rotation, Refuse(r) \/ SaveTokenFails(r)
      PROVE  TokenTypeOK'
  BY <1>4, Ends DEF Refuse, SaveTokenFails, TokenTypeOK
<1>5. ASSUME NEW r \in Rotation, SaveToken(r)
      PROVE  TokenTypeOK'
  <2>1. rotation[r] # Idle /\ rotation[r].token \in Token
    BY <1>5, Requests DEF SaveToken, Idle
  <2> QED
    BY <1>5, <2>1, NextPhase DEF SaveToken, TokenTypeOK
<1>6. ASSUME NEW r \in Rotation, SaveTokenReplyLost(r) \/ Swap(r)
      PROVE  TokenTypeOK'
  <2>1. rotation[r].token \in Token
    BY <1>6, Requests DEF SaveTokenReplyLost, Swap, Idle
  <2> QED
    BY <1>6, <2>1, Ends DEF SaveTokenReplyLost, Swap, TokenTypeOK
<1>7. CASE Stop
  BY <1>7 DEF Stop, TokenTypeOK
<1>8. ASSUME NEW readable \in BOOLEAN, Start(readable)
      PROVE  TokenTypeOK'
  <2>1. Preferred(readable) \in Token
    BY MaxTokenAssumption DEF Preferred, Bootstrap, Token, TokenTypeOK
  <2> QED
    BY <1>8, <2>1 DEF Start, TokenTypeOK
<1>9. CASE UNCHANGED tokenVars
  BY <1>9 DEF tokenVars, TokenTypeOK
<1> QED
  BY <1>1, <1>2, <1>3, <1>4, <1>5, <1>6, <1>7, <1>8, <1>9 DEF TokenNext

\* The variables of a rotation keep their types: a request holds a token from
\* the moment it is received, and only a token is ever stored or used.
THEOREM TokenTypeCorrect == TokenSpec => []TokenTypeOK
  BY TokenTypeInit, TokenTypeStep, PTL DEF TokenSpec
-----------------------------------------------------------------------------
LEMMA TokenInvInit == TokenInit => TokenInv
<1> SUFFICES ASSUME TokenInit
             PROVE  TokenInv
  OBVIOUS
<1>1. live = Nothing /\ stored = Nothing /\ valid = 0
  BY DEF TokenInit
<1>2. \A r \in Rotation : rotation[r] = Idle /\ ~Verified(r) /\ rotation[r].phase # "swap"
  BY DEF TokenInit, Idle, Verified
<1>3. live # Own(valid)
  BY <1>1, OwnTokens
<1> QED
  BY <1>1, <1>2, <1>3 DEF TokenInv, AgreeInv

\* What is issued stays issued.
LEMMA IssuedStays ==
    ASSUME TokenTypeOK, TokenTypeOK', valid <= valid', NEW token, Issued(token)
    PROVE  Issued(token)'
  BY MaxTokenAssumption DEF Issued, TokenTypeOK

\* A token issued before the newest one is not the newest.
LEMMA IssuedIsNotNext ==
    ASSUME TokenTypeOK, NEW token, Issued(token)
    PROVE  token # Own(valid + 1)
  BY OwnTokens, MaxTokenAssumption DEF Issued, TokenTypeOK
-----------------------------------------------------------------------------
LEMMA ReissueKeeps ==
    ASSUME TokenTypeOK, TokenTypeOK', TokenInv, Reissue
    PROVE  TokenInv'
<1>1. valid' = valid + 1 /\ stored' = stored /\ live' = live
      /\ rotation' = rotation /\ overlapped' = overlapped
  BY DEF Reissue
<1>2. valid <= valid'
  BY <1>1, MaxTokenAssumption DEF TokenTypeOK
<1>3. \A token : Issued(token) => Issued(token)'
  BY <1>2, IssuedStays
<1>4. live' # Own(valid')
  BY <1>1, IssuedIsNotNext, OwnTokens DEF TokenInv
<1> QED
  BY <1>1, <1>3, <1>4 DEF TokenInv, AgreeInv, Verified

\* A request that does not become verified and changes no token.
LEMMA RequestKeeps ==
    ASSUME TokenTypeOK, TokenTypeOK', TokenInv, NEW r \in Rotation,
           UNCHANGED <<valid, stored, live, overlapped>>,
           live # Nothing,
           \A q \in Rotation \ {r} : rotation'[q] = rotation[q],
           rotation'[r].phase \in {"idle", "verify"}
    PROVE  TokenInv'
<1>1. \A q \in Rotation : Verified(q)' => Verified(q) /\ rotation'[q] = rotation[q]
  BY DEF Verified
<1>2. \A q \in Rotation : rotation'[q].phase = "swap" => rotation'[q] = rotation[q]
  OBVIOUS
<1>3. \A token : Issued(token) <=> Issued(token)'
  BY DEF Issued
<1> QED
  BY <1>1, <1>2, <1>3 DEF TokenInv, AgreeInv

LEMMA VerifyKeeps ==
    ASSUME TokenTypeOK, TokenTypeOK', TokenInv, NEW r \in Rotation, Verify(r)
    PROVE  TokenInv'
<1> DEFINE token == rotation[r].token
<1>1. rotation[r] # Idle /\ live # Nothing
  BY DEF Verify, Idle, TokenInv
<1>2. token = Own(valid)
  <2>1. live.bot = "own"
    BY <1>1, OwnTokens DEF TokenInv, Issued
  <2> QED
    BY <2>1, OwnTokens DEF Verify, GetMeSucceeds
<1>3. /\ \A q \in Rotation : rotation'[q].token = rotation[q].token
      /\ \A q \in Rotation \ {r} : rotation'[q] = rotation[q]
      /\ rotation'[r].phase = "save"
  BY <1>1, NextPhase DEF Verify
<1>4. UNCHANGED <<valid, stored, live>>
  BY DEF Verify
<1>5. Issued(token)
  BY <1>2, MaxTokenAssumption DEF Issued, TokenTypeOK
<1>6. \A t : Issued(t) <=> Issued(t)'
  BY <1>4 DEF Issued
<1>7. \A q \in Rotation \ {r} : Verified(q)' <=> Verified(q)
  BY <1>3 DEF Verified
<1>8. \A q \in Rotation : Verified(q)' => Issued(rotation[q].token)
  BY <1>5, <1>7 DEF TokenInv
<1>9. ASSUME ~overlapped'
      PROVE  AgreeInv'
  <2>1. AgreeInv
    BY <1>9 DEF TokenInv, Verify
  <2>2. \A q \in Rotation \ {r} : Verified(q) => rotation[q].token = token
    BY <1>9 DEF Verify, Verified
  <2>3. \A p, q \in Rotation : Verified(p)' /\ Verified(q)' => rotation'[p].token = rotation'[q].token
    BY <2>2, <1>3, <1>7
  <2>4. \A q \in Rotation : rotation'[q].phase = "swap" => stored' = rotation'[q].token
    BY <1>3, <1>4, <2>1 DEF AgreeInv
  <2>5. ASSUME live' = Own(valid')
        PROVE  /\ \A q \in Rotation : Verified(q)' => rotation'[q].token = Own(valid')
               /\ stored' # Nothing => stored' = Own(valid')
               /\ stored' = Nothing => valid' = 0
    BY <2>5, <1>2, <1>3, <1>4, <1>7, <2>1 DEF AgreeInv
  <2> QED
    BY <2>3, <2>4, <2>5 DEF AgreeInv
<1> QED
  BY <1>1, <1>3, <1>4, <1>6, <1>7, <1>8, <1>9 DEF TokenInv, Idle

\* The token is stored and the request goes on or, its reply lost, ends.
LEMMA StoreKeeps ==
    ASSUME TokenTypeOK, TokenTypeOK', TokenInv, NEW r \in Rotation,
           SaveToken(r) \/ SaveTokenReplyLost(r)
    PROVE  TokenInv'
<1> DEFINE token == rotation[r].token
<1>1. rotation[r] # Idle /\ Verified(r) /\ live # Nothing /\ Issued(token)
  BY DEF SaveToken, SaveTokenReplyLost, Idle, TokenInv, Verified
<1>2. /\ stored' = token
      /\ UNCHANGED <<valid, live, overlapped>>
  BY DEF SaveToken, SaveTokenReplyLost
<1>3. /\ \A q \in Rotation \ {r} : rotation'[q] = rotation[q]
      /\ Verified(r)' => rotation'[r].token = token
  BY <1>1, NextPhase, Ends DEF SaveToken, SaveTokenReplyLost, Verified
<1>4. \A t : Issued(t) <=> Issued(t)'
  BY <1>2 DEF Issued
<1>5. \A q \in Rotation : Verified(q)' => Verified(q) /\ rotation'[q].token = rotation[q].token
  BY <1>1, <1>3 DEF Verified
<1>6. stored' # Nothing
  BY <1>1, <1>2, IssuedTokens
<1>7. ASSUME AgreeInv
      PROVE  AgreeInv'
  <2>1. \A q \in Rotation : Verified(q)' => rotation'[q].token = token
    BY <1>1, <1>5, <1>7 DEF AgreeInv
  <2>2. live' = Own(valid') => token = Own(valid')
    BY <1>1, <1>2, <1>7 DEF AgreeInv
  <2> QED
    BY <1>2, <1>6, <2>1, <2>2 DEF AgreeInv, Verified
<1> QED
  BY <1>1, <1>2, <1>4, <1>5, <1>7 DEF TokenInv

LEMMA SwapKeeps ==
    ASSUME TokenTypeOK, TokenTypeOK', TokenInv, NEW r \in Rotation, Swap(r)
    PROVE  TokenInv'
<1> DEFINE token == rotation[r].token
<1>1. Verified(r) /\ Issued(token) /\ token # Nothing
  BY IssuedTokens DEF Swap, TokenInv, Verified
<1>2. live' = token /\ UNCHANGED <<valid, stored, overlapped>>
  BY DEF Swap
<1>3. /\ \A q \in Rotation \ {r} : rotation'[q] = rotation[q]
      /\ ~Verified(r)'
  BY Ends DEF Swap, Verified
<1>4. \A t : Issued(t) <=> Issued(t)'
  BY <1>2 DEF Issued
<1>5. \A q \in Rotation : Verified(q)' => Verified(q) /\ rotation'[q] = rotation[q]
  BY <1>3 DEF Verified
<1>6. ASSUME AgreeInv
      PROVE  AgreeInv'
  <2>1. stored = token /\ stored # Nothing
    BY <1>1, <1>6 DEF AgreeInv, Swap
  <2>2. \A q \in Rotation : Verified(q)' => rotation'[q].token = token
    BY <1>1, <1>5, <1>6 DEF AgreeInv
  <2> QED
    BY <1>2, <1>5, <2>1, <2>2, <1>6 DEF AgreeInv, Verified
<1> QED
  BY <1>1, <1>2, <1>4, <1>5, <1>6 DEF TokenInv

LEMMA StopKeeps ==
    ASSUME TokenTypeOK, TokenTypeOK', TokenInv, Stop
    PROVE  TokenInv'
<1>1. live' = Nothing /\ UNCHANGED <<valid, stored, overlapped>>
  BY DEF Stop
<1>2. \A q \in Rotation : rotation'[q] = Idle /\ ~Verified(q)'
  BY DEF Stop, Verified, Idle
<1>3. \A t : Issued(t) <=> Issued(t)'
  BY <1>1 DEF Issued
<1>4. live' # Own(valid')
  BY <1>1, OwnTokens
<1> QED
  BY <1>1, <1>2, <1>3, <1>4 DEF TokenInv, AgreeInv, Verified

LEMMA StartKeeps ==
    ASSUME TokenTypeOK, TokenTypeOK', TokenInv, NEW readable \in BOOLEAN, Start(readable)
    PROVE  TokenInv'
<1>1. live' = Preferred(readable) /\ UNCHANGED <<valid, stored, rotation>>
  BY DEF Start
<1>2. \A q \in Rotation : rotation'[q] = Idle /\ ~Verified(q)'
  BY <1>1 DEF Start, TokenInv, Verified, Idle
<1>3. \A t : Issued(t) <=> Issued(t)'
  BY <1>1 DEF Issued
<1>4. Issued(Own(0)) /\ Own(0) # Other
  BY OwnTokens, MaxTokenAssumption DEF Issued, TokenTypeOK
<1>5. Issued(live') /\ live'.bot = "own"
  BY <1>1, <1>4, IssuedTokens DEF Preferred, Bootstrap, TokenInv
<1>6. live' = Own(valid)
  BY <1>1, <1>5, OwnTokens DEF Start, GetMeSucceeds
<1>7. stored = Nothing => valid = 0
  BY <1>1, <1>6, OwnTokens DEF Preferred, Bootstrap
<1>8. stored # Nothing => stored = Own(valid)
  <2> SUFFICES ASSUME stored # Nothing
               PROVE  stored = Own(valid)
    OBVIOUS
  <2>1. CASE readable
    BY <2>1, <1>1, <1>6 DEF Preferred
  <2>2. CASE ~readable
    <3>1. valid = 0
      BY <2>2, <1>1, <1>6, OwnTokens DEF Preferred, Bootstrap
    <3>2. PICK n \in 0 .. valid : stored = Own(n)
      BY DEF TokenInv, Issued
    <3> QED
      BY <3>1, <3>2
  <2> QED
    BY <2>1, <2>2
<1>9. AgreeInv'
  BY <1>1, <1>2, <1>7, <1>8 DEF AgreeInv, Verified
<1> QED
  BY <1>1, <1>2, <1>3, <1>5, <1>9 DEF TokenInv

LEMMA TokenInvStep == TokenTypeOK /\ TokenTypeOK' /\ TokenInv /\ [TokenNext]_tokenVars => TokenInv'
<1> SUFFICES ASSUME TokenTypeOK, TokenTypeOK', TokenInv, [TokenNext]_tokenVars
             PROVE  TokenInv'
  OBVIOUS
<1>1. CASE Reissue
  BY <1>1, ReissueKeeps
<1>2. ASSUME NEW r \in Rotation, NEW token \in Token, PutToken(r, token)
      PROVE  TokenInv'
  <2>1. rotation'[r].phase = "verify" /\ \A q \in Rotation \ {r} : rotation'[q] = rotation[q]
    BY <1>2 DEF PutToken, TokenTypeOK
  <2> QED
    BY <1>2, <2>1, RequestKeeps DEF PutToken
<1>3. ASSUME NEW r \in Rotation, Verify(r)
      PROVE  TokenInv'
  BY <1>3, VerifyKeeps
<1>4. ASSUME NEW r \in Rotation, Refuse(r) \/ SaveTokenFails(r)
      PROVE  TokenInv'
  <2>1. live # Nothing
    BY <1>4 DEF Refuse, SaveTokenFails, Idle, TokenInv
  <2>2. rotation'[r].phase = "idle" /\ \A q \in Rotation \ {r} : rotation'[q] = rotation[q]
    BY <1>4, Ends DEF Refuse, SaveTokenFails
  <2> QED
    BY <1>4, <2>1, <2>2, RequestKeeps DEF Refuse, SaveTokenFails
<1>5. ASSUME NEW r \in Rotation, SaveToken(r) \/ SaveTokenReplyLost(r)
      PROVE  TokenInv'
  BY <1>5, StoreKeeps
<1>6. ASSUME NEW r \in Rotation, Swap(r)
      PROVE  TokenInv'
  BY <1>6, SwapKeeps
<1>7. CASE Stop
  BY <1>7, StopKeeps
<1>8. ASSUME NEW readable \in BOOLEAN, Start(readable)
      PROVE  TokenInv'
  BY <1>8, StartKeeps
<1>9. CASE UNCHANGED tokenVars
  BY <1>9 DEF tokenVars, TokenInv, AgreeInv, Verified, Issued
<1> QED
  BY <1>1, <1>2, <1>3, <1>4, <1>5, <1>6, <1>7, <1>8, <1>9 DEF TokenNext

LEMMA TokenInvSuffices == TokenTypeOK /\ TokenInv => WorkingBotStartsAgain
  BY OwnTokens, IssuedTokens DEF TokenInv, AgreeInv, WorkingBotStartsAgain, Preferred, Bootstrap

\* A working bot can be started again, for any number of concurrent requests
\* and any number of tokens issued in their course.
THEOREM WorkingBotAlwaysStartsAgain == TokenSpec => []WorkingBotStartsAgain
<1>1. TokenInit => TokenTypeOK /\ TokenInv
  BY TokenTypeInit, TokenInvInit
<1>2. TokenTypeOK /\ TokenInv /\ [TokenNext]_tokenVars => (TokenTypeOK /\ TokenInv)'
  BY TokenTypeStep, TokenInvStep
<1> QED
  BY <1>1, <1>2, TokenInvSuffices, PTL DEF TokenSpec
-----------------------------------------------------------------------------
(* Backup.                                                                  *)

\* While an attempt prunes, an archive that is no older than the attempt is in
\* place, and the retention it goes by was in force since it began.
PruneInv ==
    /\ attempt.phase = "dump" => attempt.retention = KeepAll \/ attempt.retention \in asked
    /\ attempt.phase = "prune" =>
         /\ attempt.retention \in asked
         /\ archives # <<>>
         /\ archives[Len(archives)] <= attempt.elapsed

PruneStep ==
    Len(archives') < Len(archives) =>
        /\ archives' # <<>>
        /\ archives'[Len(archives')] < Head(archives)
        /\ \E days \in asked : Head(archives) > days

PruningAttempt == [phase : {"wait", "dump", "prune"}, retention : RetentionDays \union {KeepAll},
                   elapsed : 0 .. MaxAge]

LEMMA Entries ==
    ASSUME NEW S, NEW s \in Seq(S)
    PROVE  Len(s) \in Nat /\ \A i \in 1 .. Len(s) : s[i] \in S
  OBVIOUS

LEMMA Numbers ==
    /\ MaxAge \in Nat /\ MaxArchives \in Nat
    /\ \A days \in RetentionDays : days \in Nat /\ days # 0
<1>1. MaxAge \in Nat /\ MaxArchives \in Nat
  BY BackupBounds
<1>2. \A days \in RetentionDays : days \in Nat /\ days # 0
  BY RetentionAssumption
<1> QED
  BY <1>1, <1>2

LEMMA AttemptFields ==
    ASSUME BackupTypeOK
    PROVE  /\ attempt \in PruningAttempt
           /\ attempt.retention \in Nat /\ attempt.elapsed \in Nat
           /\ 0 \in 0 .. MaxAge /\ NoAttempt \in PruningAttempt /\ NoAttempt.phase = "wait"
<1>1. 0 \in 0 .. MaxAge
  BY BackupBounds
<1>2. NoAttempt \in PruningAttempt /\ NoAttempt.phase = "wait"
  BY <1>1 DEF NoAttempt, PruningAttempt, KeepAll
<1>3. attempt \in PruningAttempt
  BY DEF BackupTypeOK, PruningAttempt
<1>4. attempt.retention \in RetentionDays \union {0} /\ attempt.elapsed \in 0 .. MaxAge
  BY <1>3 DEF PruningAttempt, KeepAll
<1>5. attempt.retention \in Nat
  BY <1>4, Numbers
<1>6. attempt.elapsed \in Nat
  BY <1>4, Numbers
<1> QED
  BY <1>1, <1>2, <1>3, <1>5, <1>6

\* Every archive is a day older.
LEMMA Older ==
    ASSUME NEW N \in Nat, NEW s \in Seq(0 .. N), \A i \in DOMAIN s : s[i] < N,
           NEW older, older = [i \in DOMAIN s |-> s[i] + 1]
    PROVE  older \in Seq(0 .. N) /\ Len(older) = Len(s)
<1>1. Len(s) \in Nat /\ DOMAIN s = 1 .. Len(s)
  OBVIOUS
<1>2. \A i \in 1 .. Len(s) : s[i] \in 0 .. N
  BY <1>1
<1>3. \A i \in 1 .. Len(s) : s[i] + 1 \in 0 .. N
  BY <1>1, <1>2
<1>4. older = [i \in 1 .. Len(s) |-> s[i] + 1]
  BY <1>1
<1>5. older \in [1 .. Len(s) -> 0 .. N]
  BY <1>3, <1>4
<1> QED
  BY <1>1, <1>4, <1>5

LEMMA BackupTypeInit == BackupInit => BackupTypeOK
  BY BackupBounds DEF BackupInit, BackupTypeOK, NoAttempt, KeepAll

LEMMA BackupTypeStep == BackupTypeOK /\ [BackupNext]_backupVars => BackupTypeOK'
<1> SUFFICES ASSUME BackupTypeOK, [BackupNext]_backupVars
             PROVE  BackupTypeOK'
  OBVIOUS
<1>1. ASSUME NEW days \in RetentionDays, ChangeRetention(days)
      PROVE  BackupTypeOK'
  BY <1>1 DEF ChangeRetention, BackupTypeOK
<1>2. ASSUME NEW readable \in BOOLEAN, BeginAttempt(readable)
      PROVE  BackupTypeOK'
  BY <1>2, AttemptFields DEF BeginAttempt, BackupTypeOK, PruningAttempt
<1>3. CASE DumpFails \/ AttemptEnds
  BY <1>3, AttemptFields DEF DumpFails, AttemptEnds, BackupTypeOK, PruningAttempt
<1>4. ASSUME NEW synced \in BOOLEAN, WriteArchive(synced)
      PROVE  BackupTypeOK'
  <2>1. archives' \in Seq(0 .. MaxAge) /\ Len(archives') <= MaxArchives
    BY <1>4, AttemptFields, BackupBounds DEF WriteArchive, BackupTypeOK
  <2>2. attempt' \in PruningAttempt
    BY <1>4, AttemptFields DEF WriteArchive, PruningAttempt
  <2> QED
    BY <1>4, <2>1, <2>2 DEF WriteArchive, BackupTypeOK, PruningAttempt
<1>5. CASE RemoveExpired
  <2>1. archives' \in Seq(0 .. MaxAge) /\ Len(archives') = Len(archives) - 1
    BY <1>5 DEF RemoveExpired, BackupTypeOK
  <2> QED
    BY <1>5, <2>1, BackupBounds DEF RemoveExpired, BackupTypeOK
<1>6. CASE Day
  <2>1. archives' \in Seq(0 .. MaxAge) /\ Len(archives') = Len(archives)
    <3>1. archives \in Seq(0 .. MaxAge) /\ MaxAge \in Nat
      BY Numbers DEF BackupTypeOK
    <3>2. /\ \A i \in DOMAIN archives : archives[i] < MaxAge
          /\ archives' = [i \in DOMAIN archives |-> archives[i] + 1]
      BY <1>6 DEF Day
    <3> QED
      BY <3>1, <3>2, Older
  <2>2. attempt' \in PruningAttempt
    BY <1>6, AttemptFields, BackupBounds DEF Day, PruningAttempt
  <2> QED
    BY <1>6, <2>1, <2>2 DEF Day, BackupTypeOK, PruningAttempt
<1>7. CASE UNCHANGED backupVars
  BY <1>7 DEF backupVars, BackupTypeOK
<1> QED
  BY <1>1, <1>2, <1>3, <1>4, <1>5, <1>6, <1>7 DEF BackupNext

LEMMA PruneInit == BackupInit => PruneInv
  BY DEF BackupInit, PruneInv, NoAttempt

LEMMA PruneNext == BackupTypeOK /\ PruneInv /\ [BackupNext]_backupVars => PruneInv' /\ PruneStep
<1> SUFFICES ASSUME BackupTypeOK, PruneInv, [BackupNext]_backupVars
             PROVE  PruneInv' /\ PruneStep
  OBVIOUS
<1>0. /\ archives \in Seq(0 .. MaxAge) /\ Len(archives) \in Nat
      /\ \A i \in 1 .. Len(archives) : archives[i] \in Nat
  <2>1. archives \in Seq(0 .. MaxAge)
    BY DEF BackupTypeOK
  <2>2. Len(archives) \in Nat /\ \A i \in 1 .. Len(archives) : archives[i] \in 0 .. MaxAge
    BY <2>1, Entries
  <2>3. \A n \in 0 .. MaxAge : n \in Nat
    BY Numbers
  <2> QED
    BY <2>1, <2>2, <2>3
<1>1. ASSUME NEW days \in RetentionDays, ChangeRetention(days)
      PROVE  PruneInv' /\ PruneStep
  BY <1>0, <1>1 DEF ChangeRetention, PruneInv, PruneStep, NoAttempt
<1>2. ASSUME NEW readable \in BOOLEAN, BeginAttempt(readable)
      PROVE  PruneInv' /\ PruneStep
  BY <1>0, <1>2 DEF BeginAttempt, PruneInv, PruneStep
<1>3. CASE DumpFails \/ AttemptEnds
  BY <1>0, <1>3 DEF DumpFails, AttemptEnds, PruneInv, PruneStep, NoAttempt
<1>4. ASSUME NEW synced \in BOOLEAN, WriteArchive(synced)
      PROVE  PruneInv' /\ PruneStep
  <2>1. Len(archives') = Len(archives) + 1 /\ archives'[Len(archives')] = 0 /\ archives' # <<>>
    BY <1>0, <1>4 DEF WriteArchive
  <2>2. attempt'.phase = "prune" =>
          attempt'.retention \in asked' /\ attempt'.elapsed \in Nat
    BY <1>4, AttemptFields DEF WriteArchive, PruneInv, PruningAttempt
  <2>3. attempt'.phase # "dump"
    BY <1>4, AttemptFields DEF WriteArchive, PruningAttempt
  <2> QED
    BY <1>0, <2>1, <2>2, <2>3 DEF PruneInv, PruneStep
<1>5. CASE RemoveExpired
  <2> DEFINE last == archives[Len(archives)]
             days == attempt.retention
  <2>1. /\ attempt.phase = "prune" /\ days \in asked /\ last <= attempt.elapsed
        /\ Head(archives) > attempt.elapsed + days
        /\ archives # <<>> /\ archives' = Tail(archives)
        /\ UNCHANGED <<attempt, asked>>
    BY <1>5 DEF RemoveExpired, PruneInv, Expired
  <2>2. days \in Nat /\ attempt.elapsed \in Nat /\ Head(archives) \in Nat /\ last \in Nat
    BY <1>0, <2>1, AttemptFields
  <2>3. Head(archives) = archives[1] /\ Len(archives) > 1
    BY <1>0, <2>1, <2>2
  <2>4. archives' # <<>> /\ archives'[Len(archives')] = last
    <3>1. Len(archives') = Len(archives) - 1
      BY <1>0, <2>1, <2>3
    <3>2. \A i \in 1 .. Len(archives) - 1 : archives'[i] = archives[i + 1]
      BY <1>0, <2>1, <2>3
    <3>3. archives' # <<>>
      BY <1>0, <2>3, <3>1
    <3> QED
      BY <1>0, <2>3, <3>1, <3>2, <3>3
  <2> QED
    BY <2>1, <2>2, <2>4 DEF PruneInv, PruneStep
<1>6. CASE Day
  <2>1. Len(archives') = Len(archives) /\ asked' = asked
    BY <1>0, <1>6 DEF Day
  <2>2. CASE attempt.phase = "prune"
    <3>1. /\ attempt'.phase = "prune" /\ attempt'.retention = attempt.retention
          /\ attempt'.elapsed = attempt.elapsed + 1
      BY <1>6, <2>2, AttemptFields DEF Day, PruningAttempt, NoAttempt
    <3>2. archives # <<>> /\ archives'[Len(archives')] = archives[Len(archives)] + 1
      BY <1>0, <1>6, <2>1, <2>2 DEF Day, PruneInv
    <3>3. archives[Len(archives)] \in Nat /\ attempt.elapsed \in Nat
      BY <1>0, <3>2, AttemptFields
    <3>4. archives' # <<>>
      BY <1>0, <2>1, <3>2
    <3> QED
      BY <1>0, <2>1, <2>2, <3>1, <3>2, <3>3, <3>4 DEF PruneInv, PruneStep
  <2>3. CASE attempt.phase # "prune"
    <3>1. attempt'.phase = attempt.phase /\ attempt'.retention = attempt.retention
      BY <1>6, AttemptFields DEF Day, PruningAttempt
    <3> QED
      BY <1>0, <2>1, <2>3, <3>1 DEF PruneInv, PruneStep
  <2> QED
    BY <2>2, <2>3
<1>7. CASE UNCHANGED backupVars
  BY <1>0, <1>7 DEF backupVars, PruneInv, PruneStep
<1> QED
  BY <1>1, <1>2, <1>3, <1>4, <1>5, <1>6, <1>7 DEF BackupNext

\* An attempt holds one of the retentions owners choose or none at all, and
\* archives have an age.
THEOREM BackupTypeCorrect == BackupSpec => []BackupTypeOK
  BY BackupTypeInit, BackupTypeStep, PTL DEF BackupSpec

\* Only superseded archives are removed, for any retentions and any number of
\* archives, however often attempts fail (cmd/backup).
THEOREM OnlySupersededEverPruned == BackupSpec => OnlySupersededPruned
<1>1. BackupInit => BackupTypeOK /\ PruneInv
  BY BackupTypeInit, PruneInit
<1>2. BackupTypeOK /\ PruneInv /\ [BackupNext]_backupVars
        => (BackupTypeOK /\ PruneInv)' /\ [PruneStep]_backupVars
  BY BackupTypeStep, PruneNext
<1>3. PruneStep <=> (Len(archives') < Len(archives) =>
        /\ archives' # <<>>
        /\ archives'[Len(archives')] < Head(archives)
        /\ \E days \in asked : Head(archives) > days)
  BY DEF PruneStep
<1>4. BackupSpec => [][PruneStep]_backupVars
  BY <1>1, <1>2, PTL DEF BackupSpec
<1> QED
  BY <1>3, <1>4, PTL DEF OnlySupersededPruned
-----------------------------------------------------------------------------
(* LoginRateLimit.                                                          *)

OfAccount(a) == {i \in DOMAIN attempts : attempts[i].account = a}
OfAddress(p) == {i \in DOMAIN attempts : attempts[i].address = p}
OfAll == {i \in DOMAIN attempts : Recent(attempts[i].at, GlobalWindow, clock)}

\* An attempt began in the past, and one that ended is counted among the
\* completions, so that the next to end is later than all before.
PastInv ==
    \A i \in DOMAIN attempts :
        /\ attempts[i].at <= clock
        /\ attempts[i].state # "pending" => attempts[i].ended <= Completions

\* Every guess that counts is in the list of its account, of its address and of
\* everybody: what pruning and a success drop never counts again.
ListedInv ==
    /\ \A a \in Account : Guesses(OfAccount(a), AccountWindow) \subseteq byAccount[a]
    /\ \A p \in Address : Guesses(OfAddress(p), AddressWindow) \subseteq byAddress[p]
    /\ OfAll \subseteq global

ListsAreShort ==
    /\ \A a \in Account : Cardinality(byAccount[a]) <= AccountAttempts
    /\ \A p \in Address : Cardinality(byAddress[p]) <= AddressAttempts
    /\ Cardinality(global) <= GlobalAttempts
-----------------------------------------------------------------------------
LEMMA Limits ==
    /\ AccountAttempts \in Nat /\ AddressAttempts \in Nat /\ GlobalAttempts \in Nat
    /\ AccountWindow \in Nat /\ AddressWindow \in Nat /\ GlobalWindow \in Nat
    /\ MaxAttempts \in Nat /\ MaxClock \in Nat
  BY LimitsAssumption, LimiterBounds

LEMMA AttemptList ==
    ASSUME LimiterTypeOK
    PROVE  /\ Len(attempts) \in Nat /\ DOMAIN attempts = 1 .. Len(attempts)
           /\ \A i \in DOMAIN attempts :
                /\ attempts[i] \in Attempt
                /\ attempts[i].account \in Account /\ attempts[i].address \in Address
                /\ attempts[i].at \in 0 .. MaxClock
                /\ attempts[i].state \in {"pending", "failed", "succeeded"}
                /\ attempts[i].ended \in 0 .. MaxAttempts
           /\ clock \in Nat
<1>1. attempts \in Seq(Attempt) /\ clock \in 0 .. MaxClock
  BY DEF LimiterTypeOK
<1>2. Len(attempts) \in Nat /\ DOMAIN attempts = 1 .. Len(attempts)
  BY <1>1
<1>3. \A i \in DOMAIN attempts : attempts[i] \in Attempt
  BY <1>1
<1>4. clock \in Nat
  BY <1>1, Limits
<1> QED
  BY <1>2, <1>3, <1>4 DEF Attempt

\* Every set of ids is finite.
LEMMA IdsAreFinite ==
    ASSUME NEW n \in Nat, NEW ids \in SUBSET (1 .. n)
    PROVE  IsFiniteSet(ids) /\ Cardinality(ids) \in Nat
<1>1. IsFiniteSet(1 .. n)
  BY FS_Interval
<1>2. IsFiniteSet(ids)
  BY <1>1, FS_Subset
<1> QED
  BY <1>2, FS_CardinalityType

LEMMA FewerIds ==
    ASSUME NEW n \in Nat, NEW ids \in SUBSET (1 .. n), NEW fewer \in SUBSET ids
    PROVE  Cardinality(fewer) \in Nat /\ Cardinality(fewer) <= Cardinality(ids)
<1>1. fewer \in SUBSET (1 .. n)
  OBVIOUS
<1> QED
  BY <1>1, IdsAreFinite, FS_Subset

LEMMA OneMoreId ==
    ASSUME NEW n \in Nat, NEW ids \in SUBSET (1 .. n), NEW id
    PROVE  /\ Cardinality(ids \union {id}) \in Nat
           /\ Cardinality(ids \union {id}) <= Cardinality(ids) + 1
<1>1. IsFiniteSet(ids) /\ Cardinality(ids) \in Nat
  BY IdsAreFinite
<1>2. Cardinality(ids \union {id}) = IF id \in ids THEN Cardinality(ids) ELSE Cardinality(ids) + 1
  BY <1>1, FS_AddElement
<1> QED
  BY <1>1, <1>2

LEMMA CompletedCount ==
    ASSUME LimiterTypeOK
    PROVE  Completions \in Nat
<1>1. {i \in DOMAIN attempts : attempts[i].state # "pending"} \in SUBSET (1 .. Len(attempts))
  BY AttemptList
<1> QED
  BY <1>1, AttemptList, IdsAreFinite DEF Completions

\* Pruning drops no attempt that is recent.
LEMMA PrunedIds ==
    ASSUME NEW ids, NEW window, NEW now,
           \A i \in ids : i \in Nat
    PROVE  /\ Pruned(ids, window, now) \subseteq ids
           /\ \A i \in ids : Recent(attempts[i].at, window, now) => i \in Pruned(ids, window, now)
  BY DEF Pruned
-----------------------------------------------------------------------------
\* What completing an attempt does to the list of attempts.
LEMMA EndStep ==
    ASSUME LimiterTypeOK, PastInv,
           NEW id \in DOMAIN attempts, attempts[id].state = "pending",
           NEW state \in {"failed", "succeeded"}, attempts' = Ended(id, state)
    PROVE  /\ attempts' \in Seq(Attempt)
           /\ Len(attempts') = Len(attempts) /\ DOMAIN attempts' = DOMAIN attempts
           /\ \A i \in DOMAIN attempts :
                /\ attempts'[i].account = attempts[i].account
                /\ attempts'[i].address = attempts[i].address
                /\ attempts'[i].at = attempts[i].at
                /\ i # id => /\ attempts'[i].state = attempts[i].state
                             /\ attempts'[i].ended = attempts[i].ended
           /\ attempts'[id].state = state
           /\ attempts'[id].ended = Completions + 1
           /\ Completions' = Completions + 1
<1> DEFINE done == {i \in DOMAIN attempts : attempts[i].state # "pending"}
<1>1. done \in SUBSET (1 .. Len(attempts)) /\ id \notin done /\ Len(attempts) \in Nat
  BY AttemptList
<1>2. IsFiniteSet(done) /\ Cardinality(done) \in Nat
  BY <1>1, IdsAreFinite
<1>3. Cardinality(done \union {id}) = Cardinality(done) + 1
  BY <1>1, <1>2, FS_AddElement
<1>4. Cardinality(done \union {id}) <= Len(attempts)
  <2>1. done \union {id} \in SUBSET (1 .. Len(attempts))
    BY <1>1, AttemptList
  <2>2. IsFiniteSet(1 .. Len(attempts)) /\ Cardinality(1 .. Len(attempts)) = Len(attempts)
    <3>1. 1 \in Int /\ Len(attempts) \in Int
      BY <1>1
    <3>2. /\ IsFiniteSet(1 .. Len(attempts))
          /\ Cardinality(1 .. Len(attempts)) = IF 1 > Len(attempts) THEN 0 ELSE Len(attempts) - 1 + 1
      BY <3>1, FS_Interval
    <3> QED
      BY <1>1, <3>2
  <2> QED
    BY <2>1, <2>2, FS_Subset
<1>5. Completions = Cardinality(done) /\ Completions + 1 \in 0 .. MaxAttempts
  BY <1>1, <1>2, <1>3, <1>4, Limits DEF LimiterTypeOK, Completions
<1>6. attempts[id] \in Attempt /\ attempts \in Seq(Attempt)
  BY AttemptList DEF LimiterTypeOK
<1>7. attempts' = [attempts EXCEPT ![id] =
                     [attempts[id] EXCEPT !.state = state, !.ended = Completions + 1]]
  BY <1>6 DEF Ended
<1>8. [attempts[id] EXCEPT !.state = state, !.ended = Completions + 1] \in Attempt
  BY <1>5, <1>6 DEF Attempt
<1>9. attempts' \in Seq(Attempt) /\ Len(attempts') = Len(attempts) /\ DOMAIN attempts' = DOMAIN attempts
  BY <1>6, <1>7, <1>8
<1>10. /\ \A i \in DOMAIN attempts : i # id => attempts'[i] = attempts[i]
       /\ attempts'[id] = [attempts[id] EXCEPT !.state = state, !.ended = Completions + 1]
  BY <1>6, <1>7
<1>11. /\ attempts'[id].account = attempts[id].account
       /\ attempts'[id].address = attempts[id].address
       /\ attempts'[id].at = attempts[id].at
       /\ attempts'[id].state = state
       /\ attempts'[id].ended = Completions + 1
  BY <1>6, <1>10 DEF Attempt
<1>12. {i \in DOMAIN attempts' : attempts'[i].state # "pending"} = done \union {id}
  BY <1>9, <1>10, <1>11
<1>13. Completions' = Completions + 1
  BY <1>3, <1>5, <1>12 DEF Completions
<1> QED
  BY <1>9, <1>10, <1>11, <1>13

\* The guesses of `all` that count after a step.
GuessesAfter(all, window) ==
    {i \in all :
        /\ Recent(attempts'[i].at, window, clock')
        /\ \/ attempts'[i].state = "pending"
           \/ /\ attempts'[i].state = "failed"
              /\ \A j \in all : attempts'[j].state = "succeeded" => attempts'[j].ended < attempts'[i].ended}

\* A failure adds no guess, it was one while pending; a success adds none, and
\* where it belongs it leaves only what is pending.
LEMMA GuessesAfterEnd ==
    ASSUME LimiterTypeOK, PastInv, UNCHANGED clock,
           NEW id \in DOMAIN attempts, attempts[id].state = "pending",
           NEW state \in {"failed", "succeeded"}, attempts' = Ended(id, state),
           NEW all, all \subseteq DOMAIN attempts, NEW window
    PROVE  /\ GuessesAfter(all, window) \subseteq Guesses(all, window)
           /\ state = "succeeded" /\ id \in all =>
                \A i \in GuessesAfter(all, window) : i # id /\ attempts[i].state = "pending"
<1> DEFINE Survives(i) ==
        /\ attempts'[i].at = attempts[i].at
        /\ i # id => /\ attempts'[i].state = attempts[i].state
                     /\ attempts'[i].ended = attempts[i].ended
<1>1. /\ \A i \in all : Survives(i)
      /\ attempts'[id].state = state
      /\ attempts'[id].ended = Completions + 1
  BY EndStep
<1> HIDE DEF Survives
<1>2. ASSUME NEW i \in GuessesAfter(all, window)
      PROVE  i \in Guesses(all, window)
  <2>1. i \in all /\ Recent(attempts[i].at, window, clock)
    BY <1>1, <1>2 DEF Survives, GuessesAfter
  <2>2. CASE i = id
    BY <2>1, <2>2 DEF Guesses
  <2>3. CASE i # id
    <3>1. attempts'[i].state = attempts[i].state /\ attempts'[i].ended = attempts[i].ended
      BY <1>1, <2>1, <2>3 DEF Survives
    <3>2. \A j \in all : attempts[j].state = "succeeded" =>
             attempts'[j].state = "succeeded" /\ attempts'[j].ended = attempts[j].ended
      BY <1>1 DEF Survives
    <3> QED
      BY <1>2, <2>1, <3>1, <3>2 DEF Guesses, GuessesAfter
  <2> QED
    BY <2>2, <2>3
<1>3. ASSUME state = "succeeded", id \in all, NEW i \in GuessesAfter(all, window)
      PROVE  i # id /\ attempts[i].state = "pending"
  <2>1. i \in all /\ i # id /\ attempts'[i].state = attempts[i].state
        /\ attempts'[i].ended = attempts[i].ended
    BY <1>1, <1>3 DEF Survives, GuessesAfter
  <2>2. attempts[i].state # "pending" => attempts[i].ended <= Completions
    BY <2>1 DEF PastInv
  <2>3. ~(Completions + 1 < attempts[i].ended) \/ attempts[i].state = "pending"
    BY <2>1, <2>2, AttemptList, CompletedCount
  <2> QED
    BY <1>1, <1>3, <2>1, <2>3 DEF GuessesAfter
<1> QED
  BY <1>2, <1>3

LEMMA EndKeepsPast ==
    ASSUME LimiterTypeOK, PastInv, UNCHANGED clock,
           NEW id \in DOMAIN attempts, attempts[id].state = "pending",
           NEW state \in {"failed", "succeeded"}, attempts' = Ended(id, state)
    PROVE  /\ PastInv'
           /\ \A a \in Account : OfAccount(a)' = OfAccount(a)
           /\ \A p \in Address : OfAddress(p)' = OfAddress(p)
           /\ OfAll' = OfAll
<1> DEFINE Survives(i) ==
        /\ attempts'[i].account = attempts[i].account
        /\ attempts'[i].address = attempts[i].address
        /\ attempts'[i].at = attempts[i].at
        /\ i # id => /\ attempts'[i].state = attempts[i].state
                     /\ attempts'[i].ended = attempts[i].ended
<1>1. /\ DOMAIN attempts' = DOMAIN attempts
      /\ \A i \in DOMAIN attempts : Survives(i)
      /\ attempts'[id].ended = Completions + 1
      /\ Completions' = Completions + 1
  BY EndStep
<1> HIDE DEF Survives
<1>2. PastInv'
  BY <1>1, CompletedCount, AttemptList DEF PastInv, Survives
<1>3. /\ \A a \in Account : OfAccount(a)' = OfAccount(a)
      /\ \A p \in Address : OfAddress(p)' = OfAddress(p)
      /\ OfAll' = OfAll
  BY <1>1 DEF OfAccount, OfAddress, OfAll, Survives
<1> QED
  BY <1>2, <1>3

\* An attempt that fails was pending, and so it is in its lists already.
LEMMA FailStep ==
    ASSUME LimiterTypeOK, PastInv, ListedInv, ListsAreShort,
           NEW id \in DOMAIN attempts, Fail(id)
    PROVE  LimiterTypeOK' /\ PastInv' /\ ListedInv' /\ ListsAreShort'
<1>1. /\ attempts[id].state = "pending" /\ attempts' = Ended(id, "failed")
      /\ UNCHANGED <<clock, byAccount, byAddress, global>>
  BY DEF Fail
<1>2. attempts' \in Seq(Attempt) /\ Len(attempts') = Len(attempts)
  BY <1>1, EndStep
<1>3. LimiterTypeOK'
  BY <1>1, <1>2 DEF LimiterTypeOK
<1>4. /\ PastInv' /\ OfAll' = OfAll
      /\ \A a \in Account : OfAccount(a)' = OfAccount(a)
      /\ \A p \in Address : OfAddress(p)' = OfAddress(p)
  BY <1>1, EndKeepsPast
<1>5. \A a \in Account : Guesses(OfAccount(a), AccountWindow)' \subseteq byAccount'[a]
  <2> TAKE a \in Account
  <2>1. GuessesAfter(OfAccount(a), AccountWindow) \subseteq Guesses(OfAccount(a), AccountWindow)
    BY <1>1, GuessesAfterEnd DEF OfAccount
  <2>2. Guesses(OfAccount(a), AccountWindow)' = GuessesAfter(OfAccount(a), AccountWindow)
    BY <1>4 DEF Guesses, GuessesAfter
  <2> QED
    BY <1>1, <2>1, <2>2 DEF ListedInv
<1>6. \A p \in Address : Guesses(OfAddress(p), AddressWindow)' \subseteq byAddress'[p]
  <2> TAKE p \in Address
  <2>1. GuessesAfter(OfAddress(p), AddressWindow) \subseteq Guesses(OfAddress(p), AddressWindow)
    BY <1>1, GuessesAfterEnd DEF OfAddress
  <2>2. Guesses(OfAddress(p), AddressWindow)' = GuessesAfter(OfAddress(p), AddressWindow)
    BY <1>4 DEF Guesses, GuessesAfter
  <2> QED
    BY <1>1, <2>1, <2>2 DEF ListedInv
<1>7. ListedInv'
  BY <1>1, <1>4, <1>5, <1>6 DEF ListedInv
<1>8. ListsAreShort'
  BY <1>1 DEF ListsAreShort
<1> QED
  BY <1>3, <1>4, <1>7, <1>8

\* A success leaves what is pending in the lists of its account and its
\* address, and there only what is pending counts after it.
LEMMA SucceedStep ==
    ASSUME LimiterTypeOK, PastInv, ListedInv, ListsAreShort,
           NEW id \in DOMAIN attempts, Succeed(id)
    PROVE  LimiterTypeOK' /\ PastInv' /\ ListedInv' /\ ListsAreShort'
<1> DEFINE account == attempts[id].account
           address == attempts[id].address
<1>1. /\ attempts[id].state = "pending" /\ attempts' = Ended(id, "succeeded")
      /\ byAccount' = [byAccount EXCEPT ![account] = StillPending(byAccount[account], id)]
      /\ byAddress' = [byAddress EXCEPT ![address] = StillPending(byAddress[address], id)]
      /\ UNCHANGED <<clock, global>>
  BY DEF Succeed
<1>2. attempts' \in Seq(Attempt) /\ Len(attempts') = Len(attempts)
  BY <1>1, EndStep
<1>3. account \in Account /\ address \in Address /\ Len(attempts) \in Nat
  BY AttemptList
<1> HIDE DEF account, address
<1>4. /\ \A a \in Account : byAccount'[a] =
            IF a = account THEN StillPending(byAccount[a], id) ELSE byAccount[a]
      /\ \A p \in Address : byAddress'[p] =
            IF p = address THEN StillPending(byAddress[p], id) ELSE byAddress[p]
  BY <1>1, <1>3 DEF LimiterTypeOK
<1>5. \A ids : StillPending(ids, id) \subseteq ids
  BY DEF StillPending
<1>6. LimiterTypeOK'
  <2>1. byAccount' \in [Account -> SUBSET (1 .. Len(attempts))]
    BY <1>1, <1>3, <1>5 DEF LimiterTypeOK
  <2>2. byAddress' \in [Address -> SUBSET (1 .. Len(attempts))]
    BY <1>1, <1>3, <1>5 DEF LimiterTypeOK
  <2> QED
    BY <1>1, <1>2, <2>1, <2>2 DEF LimiterTypeOK
<1>7. /\ PastInv' /\ OfAll' = OfAll
      /\ \A a \in Account : OfAccount(a)' = OfAccount(a)
      /\ \A p \in Address : OfAddress(p)' = OfAddress(p)
  BY <1>1, EndKeepsPast
<1>8. \A a \in Account : Guesses(OfAccount(a), AccountWindow)' \subseteq byAccount'[a]
  <2> TAKE a \in Account
  <2>1. /\ GuessesAfter(OfAccount(a), AccountWindow) \subseteq Guesses(OfAccount(a), AccountWindow)
        /\ id \in OfAccount(a) => \A i \in GuessesAfter(OfAccount(a), AccountWindow) :
                                     i # id /\ attempts[i].state = "pending"
    BY <1>1, GuessesAfterEnd DEF OfAccount
  <2>2. Guesses(OfAccount(a), AccountWindow)' = GuessesAfter(OfAccount(a), AccountWindow)
    BY <1>7 DEF Guesses, GuessesAfter
  <2>3. a = account <=> id \in OfAccount(a)
    BY DEF OfAccount, account
  <2>4. Guesses(OfAccount(a), AccountWindow) \subseteq byAccount[a]
    BY DEF ListedInv
  <2>5. CASE a = account
    <3>1. byAccount'[a] = StillPending(byAccount[a], id)
      BY <1>4, <2>5
    <3>2. \A i \in GuessesAfter(OfAccount(a), AccountWindow) : i \in StillPending(byAccount[a], id)
      BY <2>1, <2>3, <2>4, <2>5 DEF StillPending
    <3> QED
      BY <2>2, <3>1, <3>2
  <2>6. CASE a # account
    <3>1. byAccount'[a] = byAccount[a]
      BY <1>4, <2>6
    <3> QED
      BY <2>1, <2>2, <2>4, <3>1
  <2> QED
    BY <2>5, <2>6
<1>9. \A p \in Address : Guesses(OfAddress(p), AddressWindow)' \subseteq byAddress'[p]
  <2> TAKE p \in Address
  <2>1. /\ GuessesAfter(OfAddress(p), AddressWindow) \subseteq Guesses(OfAddress(p), AddressWindow)
        /\ id \in OfAddress(p) => \A i \in GuessesAfter(OfAddress(p), AddressWindow) :
                                     i # id /\ attempts[i].state = "pending"
    BY <1>1, GuessesAfterEnd DEF OfAddress
  <2>2. Guesses(OfAddress(p), AddressWindow)' = GuessesAfter(OfAddress(p), AddressWindow)
    BY <1>7 DEF Guesses, GuessesAfter
  <2>3. p = address <=> id \in OfAddress(p)
    BY DEF OfAddress, address
  <2>4. Guesses(OfAddress(p), AddressWindow) \subseteq byAddress[p]
    BY DEF ListedInv
  <2>5. CASE p = address
    <3>1. byAddress'[p] = StillPending(byAddress[p], id)
      BY <1>4, <2>5
    <3>2. \A i \in GuessesAfter(OfAddress(p), AddressWindow) : i \in StillPending(byAddress[p], id)
      BY <2>1, <2>3, <2>4, <2>5 DEF StillPending
    <3> QED
      BY <2>2, <3>1, <3>2
  <2>6. CASE p # address
    <3>1. byAddress'[p] = byAddress[p]
      BY <1>4, <2>6
    <3> QED
      BY <2>1, <2>2, <2>4, <3>1
  <2> QED
    BY <2>5, <2>6
<1>10. ListedInv'
  BY <1>1, <1>7, <1>8, <1>9 DEF ListedInv
<1>11. ListsAreShort'
  <2>1. ASSUME NEW a \in Account
        PROVE  Cardinality(byAccount'[a]) <= AccountAttempts
    <3>1. byAccount[a] \in SUBSET (1 .. Len(attempts)) /\ byAccount'[a] \in SUBSET byAccount[a]
      BY <1>4, <1>5 DEF LimiterTypeOK
    <3>2. Cardinality(byAccount'[a]) \in Nat /\ Cardinality(byAccount'[a]) <= Cardinality(byAccount[a])
      BY <1>3, <3>1, FewerIds
    <3>3. Cardinality(byAccount[a]) \in Nat
      BY <1>3, <3>1, IdsAreFinite
    <3> QED
      BY <3>2, <3>3, Limits DEF ListsAreShort
  <2>2. ASSUME NEW p \in Address
        PROVE  Cardinality(byAddress'[p]) <= AddressAttempts
    <3>1. byAddress[p] \in SUBSET (1 .. Len(attempts)) /\ byAddress'[p] \in SUBSET byAddress[p]
      BY <1>4, <1>5 DEF LimiterTypeOK
    <3>2. Cardinality(byAddress'[p]) \in Nat /\ Cardinality(byAddress'[p]) <= Cardinality(byAddress[p])
      BY <1>3, <3>1, FewerIds
    <3>3. Cardinality(byAddress[p]) \in Nat
      BY <1>3, <3>1, IdsAreFinite
    <3> QED
      BY <3>2, <3>3, Limits DEF ListsAreShort
  <2> QED
    BY <1>1, <2>1, <2>2 DEF ListsAreShort
<1> QED
  BY <1>6, <1>7, <1>10, <1>11
-----------------------------------------------------------------------------
LEMMA RecentEarlier ==
    ASSUME NEW t \in Nat, NEW window \in Nat, NEW now \in Nat, NEW then \in Nat,
           then <= now, Recent(t, window, now)
    PROVE  Recent(t, window, then)
  BY DEF Recent

\* Pruned at a tick no later than the clock, a list keeps what counts.
LEMMA PrunedKeeps ==
    ASSUME LimiterTypeOK, NEW at \in 0 .. clock, NEW window \in Nat,
           NEW held \in SUBSET (1 .. Len(attempts))
    PROVE  /\ Pruned(held, window, at) \in SUBSET held
           /\ \A i \in held : Recent(attempts[i].at, window, clock) => i \in Pruned(held, window, at)
<1>1. \A i \in held : i \in DOMAIN attempts /\ i \in Nat /\ attempts[i].at \in Nat
  BY AttemptList, Limits
<1>2. at \in Nat /\ clock \in Nat /\ at <= clock
  BY AttemptList
<1>3. \A i \in held : Recent(attempts[i].at, window, clock) => Recent(attempts[i].at, window, at)
  BY <1>1, <1>2, RecentEarlier
<1> QED
  BY <1>1, <1>3, PrunedIds

\* An attempt let in is the only guess that begins to count.
LEMMA GuessesAfterBegin ==
    ASSUME LimiterTypeOK, UNCHANGED clock,
           NEW e \in Attempt, e.state = "pending", attempts' = Append(attempts, e),
           NEW all, NEW more, NEW window,
           all \subseteq DOMAIN attempts, all \subseteq more,
           more \subseteq all \union {Len(attempts) + 1}
    PROVE  \A i \in GuessesAfter(more, window) :
              i \in Guesses(all, window) \/ i = Len(attempts) + 1
<1>1. \A i \in all : attempts'[i] = attempts[i]
  BY DEF LimiterTypeOK
<1> QED
  BY <1>1 DEF Guesses, GuessesAfter

LEMMA Appended ==
    ASSUME NEW S, NEW s \in Seq(S), NEW e \in S
    PROVE  LET t == Append(s, e) IN
           /\ t \in Seq(S) /\ Len(t) = Len(s) + 1 /\ DOMAIN t = 1 .. Len(s) + 1
           /\ \A i \in 1 .. Len(s) : t[i] = s[i]
           /\ t[Len(s) + 1] = e
  OBVIOUS

\* An attempt is let in where each list, pruned, is shorter than its limit.
LEMMA Allowed ==
    ASSUME LimiterTypeOK, PastInv, ListedInv, ListsAreShort,
           NEW account \in Account, NEW address \in Address,
           NEW at \in 0 .. clock, Begin(account, address, at), attempts' # attempts
    PROVE  LimiterTypeOK' /\ PastInv' /\ ListedInv' /\ ListsAreShort'
<1> DEFINE accounts == [a \in Account |-> Pruned(byAccount[a], AccountWindow, at)]
           addresses == [i \in Address |-> Pruned(byAddress[i], AddressWindow, at)]
           everybody == Pruned(global, GlobalWindow, at)
           id == Len(attempts) + 1
           e == [account |-> account, address |-> address, at |-> at,
                 state |-> "pending", ended |-> 0]
<1>1. /\ Cardinality(everybody) < GlobalAttempts
      /\ Cardinality(addresses[address]) < AddressAttempts
      /\ Cardinality(accounts[account]) < AccountAttempts
      /\ id <= MaxAttempts
      /\ attempts' = Append(attempts, e)
      /\ byAccount' = [accounts EXCEPT ![account] = accounts[account] \union {id}]
      /\ byAddress' = [addresses EXCEPT ![address] = addresses[address] \union {id}]
      /\ global' = everybody \union {id}
      /\ clock' = clock
  BY DEF Begin
<1>2. /\ Len(attempts) \in Nat /\ id \in Nat /\ clock \in Nat
      /\ attempts \in Seq(Attempt) /\ DOMAIN attempts = 1 .. Len(attempts)
      /\ clock \in 0 .. MaxClock
  BY AttemptList DEF LimiterTypeOK
<1>3. e \in Attempt /\ e.state = "pending" /\ e.at = at /\ at <= clock
      /\ e.account = account /\ e.address = address
  BY <1>2, Limits DEF Attempt
<1> HIDE DEF e
<1>4. /\ attempts' \in Seq(Attempt) /\ Len(attempts') = id /\ DOMAIN attempts' = 1 .. id
      /\ \A i \in 1 .. Len(attempts) : attempts'[i] = attempts[i]
      /\ attempts'[id] = e
  <2>1. /\ Append(attempts, e) \in Seq(Attempt) /\ Len(Append(attempts, e)) = Len(attempts) + 1
        /\ DOMAIN Append(attempts, e) = 1 .. Len(attempts) + 1
        /\ \A i \in 1 .. Len(attempts) : Append(attempts, e)[i] = attempts[i]
        /\ Append(attempts, e)[Len(attempts) + 1] = e
    BY <1>2, <1>3, Appended
  <2>2. attempts' = Append(attempts, e)
    BY <1>1
  <2> QED
    BY <2>1, <2>2
<1>5. /\ \A a \in Account : accounts[a] = Pruned(byAccount[a], AccountWindow, at)
      /\ \A p \in Address : addresses[p] = Pruned(byAddress[p], AddressWindow, at)
      /\ \A a \in Account : byAccount[a] \in SUBSET (1 .. Len(attempts))
      /\ \A p \in Address : byAddress[p] \in SUBSET (1 .. Len(attempts))
      /\ global \in SUBSET (1 .. Len(attempts))
  BY DEF LimiterTypeOK
<1>6. /\ \A a \in Account : accounts[a] \in SUBSET byAccount[a]
      /\ \A p \in Address : addresses[p] \in SUBSET byAddress[p]
      /\ everybody \in SUBSET global
  BY <1>5, PrunedKeeps, Limits
<1>7. /\ \A a \in Account : a # account => byAccount'[a] = accounts[a]
      /\ \A p \in Address : p # address => byAddress'[p] = addresses[p]
      /\ byAccount'[account] = accounts[account] \union {id}
      /\ byAddress'[address] = addresses[address] \union {id}
      /\ DOMAIN byAccount' = Account /\ DOMAIN byAddress' = Address
  BY <1>1
<1>0. /\ id = Len(attempts) + 1 /\ id \in 1 .. id /\ id \notin 1 .. Len(attempts)
      /\ \A i \in 1 .. Len(attempts) : i \in 1 .. id
      /\ \A i \in 1 .. id : i = id \/ i \in 1 .. Len(attempts)
  BY <1>2
<1> HIDE DEF accounts, addresses, everybody, id
<1>8. LimiterTypeOK'
  <2>1. byAccount' \in [Account -> SUBSET (1 .. id)]
    <3>1. \A a \in Account : byAccount'[a] \in SUBSET (1 .. id)
      <4> TAKE a \in Account
      <4>1. accounts[a] \in SUBSET (1 .. id)
        BY <1>0, <1>5, <1>6
      <4>2. CASE a = account
        BY <1>0, <1>7, <4>1, <4>2
      <4>3. CASE a # account
        BY <1>7, <4>1, <4>3
      <4> QED
        BY <4>2, <4>3
    <3> QED
      BY <1>1, <3>1 DEF accounts
  <2>2. byAddress' \in [Address -> SUBSET (1 .. id)]
    <3>1. \A p \in Address : byAddress'[p] \in SUBSET (1 .. id)
      <4> TAKE p \in Address
      <4>1. addresses[p] \in SUBSET (1 .. id)
        BY <1>0, <1>5, <1>6
      <4>2. CASE p = address
        BY <1>0, <1>7, <4>1, <4>2
      <4>3. CASE p # address
        BY <1>7, <4>1, <4>3
      <4> QED
        BY <4>2, <4>3
    <3> QED
      BY <1>1, <3>1 DEF addresses
  <2>3. global' \in SUBSET (1 .. id)
    BY <1>0, <1>1, <1>5, <1>6
  <2> QED
    BY <1>1, <1>2, <1>4, <2>1, <2>2, <2>3 DEF LimiterTypeOK
<1>9. PastInv'
  <2>1. Completions' = Completions
    <3>1. {i \in DOMAIN attempts' : attempts'[i].state # "pending"}
            = {i \in DOMAIN attempts : attempts[i].state # "pending"}
      BY <1>0, <1>2, <1>3, <1>4
    <3> QED
      BY <3>1 DEF Completions
  <2>2. ASSUME NEW i \in DOMAIN attempts'
        PROVE  /\ attempts'[i].at <= clock'
               /\ attempts'[i].state # "pending" => attempts'[i].ended <= Completions'
    <3>1. CASE i = id
      BY <1>1, <1>3, <1>4, <3>1
    <3>2. CASE i # id
      BY <1>0, <1>1, <1>2, <1>4, <2>1, <2>2, <3>2 DEF PastInv
    <3> QED
      BY <3>1, <3>2
  <2> QED
    BY <2>2 DEF PastInv
<1>10. /\ \A a \in Account : OfAccount(a) \subseteq OfAccount(a)'
       /\ \A a \in Account : OfAccount(a)' \subseteq OfAccount(a) \union {id}
       /\ \A a \in Account : id \in OfAccount(a)' => a = account
       /\ \A p \in Address : OfAddress(p) \subseteq OfAddress(p)'
       /\ \A p \in Address : OfAddress(p)' \subseteq OfAddress(p) \union {id}
       /\ \A p \in Address : id \in OfAddress(p)' => p = address
       /\ OfAll' \subseteq OfAll \union {id}
  <2>1. \A i : i \in DOMAIN attempts' <=> i \in DOMAIN attempts \/ i = id
    BY <1>0, <1>2, <1>4
  <2>2. \A i \in DOMAIN attempts : attempts'[i] = attempts[i]
    BY <1>2, <1>4
  <2>3. id \notin DOMAIN attempts /\ attempts'[id].account = account /\ attempts'[id].address = address
    BY <1>0, <1>2, <1>3, <1>4
  <2>4. /\ \A a \in Account : OfAccount(a) \subseteq OfAccount(a)'
        /\ \A a \in Account : OfAccount(a)' \subseteq OfAccount(a) \union {id}
        /\ \A a \in Account : id \in OfAccount(a)' => a = account
    BY <2>1, <2>2, <2>3 DEF OfAccount
  <2>5. /\ \A p \in Address : OfAddress(p) \subseteq OfAddress(p)'
        /\ \A p \in Address : OfAddress(p)' \subseteq OfAddress(p) \union {id}
        /\ \A p \in Address : id \in OfAddress(p)' => p = address
    BY <2>1, <2>2, <2>3 DEF OfAddress
  <2>6. OfAll' \subseteq OfAll \union {id}
    BY <1>1, <2>1, <2>2 DEF OfAll
  <2> QED
    BY <2>4, <2>5, <2>6
<1>11. \A a \in Account : Guesses(OfAccount(a), AccountWindow)' \subseteq byAccount'[a]
  <2> TAKE a \in Account
  <2>1. \A i \in GuessesAfter(OfAccount(a)', AccountWindow) :
           i \in Guesses(OfAccount(a), AccountWindow) \/ i = id
    BY <1>0, <1>1, <1>3, <1>10, GuessesAfterBegin DEF OfAccount
  <2>2. Guesses(OfAccount(a), AccountWindow)' = GuessesAfter(OfAccount(a)', AccountWindow)
    BY DEF Guesses, GuessesAfter
  <2>3. \A i \in Guesses(OfAccount(a), AccountWindow) : i \in accounts[a]
    <3>1. \A i \in Guesses(OfAccount(a), AccountWindow) :
             i \in byAccount[a] /\ Recent(attempts[i].at, AccountWindow, clock)
      BY DEF ListedInv, Guesses
    <3> QED
      BY <1>5, <3>1, PrunedKeeps, Limits
  <2>4. \A i \in GuessesAfter(OfAccount(a)', AccountWindow) : i = id => a = account
    BY <1>10 DEF GuessesAfter
  <2>5. CASE a = account
    BY <1>7, <2>1, <2>2, <2>3, <2>5
  <2>6. CASE a # account
    BY <1>7, <2>1, <2>2, <2>3, <2>4, <2>6
  <2> QED
    BY <2>5, <2>6
<1>12. \A p \in Address : Guesses(OfAddress(p), AddressWindow)' \subseteq byAddress'[p]
  <2> TAKE p \in Address
  <2>1. \A i \in GuessesAfter(OfAddress(p)', AddressWindow) :
           i \in Guesses(OfAddress(p), AddressWindow) \/ i = id
    BY <1>0, <1>1, <1>3, <1>10, GuessesAfterBegin DEF OfAddress
  <2>2. Guesses(OfAddress(p), AddressWindow)' = GuessesAfter(OfAddress(p)', AddressWindow)
    BY DEF Guesses, GuessesAfter
  <2>3. \A i \in Guesses(OfAddress(p), AddressWindow) : i \in addresses[p]
    <3>1. \A i \in Guesses(OfAddress(p), AddressWindow) :
             i \in byAddress[p] /\ Recent(attempts[i].at, AddressWindow, clock)
      BY DEF ListedInv, Guesses
    <3> QED
      BY <1>5, <3>1, PrunedKeeps, Limits
  <2>4. \A i \in GuessesAfter(OfAddress(p)', AddressWindow) : i = id => p = address
    BY <1>10 DEF GuessesAfter
  <2>5. CASE p = address
    BY <1>7, <2>1, <2>2, <2>3, <2>5
  <2>6. CASE p # address
    BY <1>7, <2>1, <2>2, <2>3, <2>4, <2>6
  <2> QED
    BY <2>5, <2>6
<1>13. OfAll' \subseteq global'
  <2>1. \A i \in OfAll : i \in global /\ Recent(attempts[i].at, GlobalWindow, clock)
    BY DEF ListedInv, OfAll
  <2>2. \A i \in OfAll : i \in everybody
    BY <1>5, <2>1, PrunedKeeps, Limits DEF everybody
  <2> QED
    BY <1>1, <1>10, <2>2
<1>14. ListedInv'
  BY <1>11, <1>12, <1>13 DEF ListedInv
<1>15. ListsAreShort'
  <2>1. ASSUME NEW a \in Account
        PROVE  Cardinality(byAccount'[a]) <= AccountAttempts
    <3>1. /\ Cardinality(accounts[a]) \in Nat
          /\ Cardinality(accounts[a]) <= Cardinality(byAccount[a])
          /\ Cardinality(byAccount[a]) \in Nat
      BY <1>2, <1>5, <1>6, FewerIds, IdsAreFinite
    <3>2. accounts[a] \in SUBSET (1 .. Len(attempts))
      BY <1>5, <1>6
    <3>3. /\ Cardinality(accounts[a] \union {id}) <= Cardinality(accounts[a]) + 1
          /\ Cardinality(accounts[a] \union {id}) \in Nat
      BY <1>2, <3>2, OneMoreId
    <3>4. a = account => Cardinality(accounts[a]) < AccountAttempts
      BY <1>1
    <3>5. Cardinality(accounts[a]) <= AccountAttempts
      BY <3>1, Limits DEF ListsAreShort
    <3>6. CASE a = account
      <4>1. byAccount'[a] = accounts[a] \union {id}
        BY <1>7, <3>6
      <4> QED
        BY <3>1, <3>3, <3>4, <3>6, <4>1, Limits
    <3>7. CASE a # account
      BY <1>7, <3>5, <3>7
    <3> QED
      BY <3>6, <3>7
  <2>2. ASSUME NEW p \in Address
        PROVE  Cardinality(byAddress'[p]) <= AddressAttempts
    <3>1. /\ Cardinality(addresses[p]) \in Nat
          /\ Cardinality(addresses[p]) <= Cardinality(byAddress[p])
          /\ Cardinality(byAddress[p]) \in Nat
      BY <1>2, <1>5, <1>6, FewerIds, IdsAreFinite
    <3>2. addresses[p] \in SUBSET (1 .. Len(attempts))
      BY <1>5, <1>6
    <3>3. /\ Cardinality(addresses[p] \union {id}) <= Cardinality(addresses[p]) + 1
          /\ Cardinality(addresses[p] \union {id}) \in Nat
      BY <1>2, <3>2, OneMoreId
    <3>4. p = address => Cardinality(addresses[p]) < AddressAttempts
      BY <1>1
    <3>5. Cardinality(addresses[p]) <= AddressAttempts
      BY <3>1, Limits DEF ListsAreShort
    <3>6. CASE p = address
      <4>1. byAddress'[p] = addresses[p] \union {id}
        BY <1>7, <3>6
      <4> QED
        BY <3>1, <3>3, <3>4, <3>6, <4>1, Limits
    <3>7. CASE p # address
      BY <1>7, <3>5, <3>7
    <3> QED
      BY <3>6, <3>7
  <2>3. Cardinality(global') <= GlobalAttempts
    <3>1. everybody \in SUBSET (1 .. Len(attempts))
      BY <1>5, <1>6
    <3>2. Cardinality(everybody) \in Nat
      BY <1>2, <3>1, IdsAreFinite
    <3>3. /\ Cardinality(everybody \union {id}) <= Cardinality(everybody) + 1
          /\ Cardinality(everybody \union {id}) \in Nat
      BY <1>2, <3>1, OneMoreId
    <3> QED
      BY <1>1, <3>2, <3>3, Limits
  <2> QED
    BY <2>1, <2>2, <2>3 DEF ListsAreShort
<1> QED
  BY <1>8, <1>9, <1>14, <1>15

\* An attempt that is refused only prunes.
LEMMA Refused ==
    ASSUME LimiterTypeOK, PastInv, ListedInv, ListsAreShort,
           NEW account \in Account, NEW address \in Address,
           NEW at \in 0 .. clock, Begin(account, address, at), attempts' = attempts
    PROVE  LimiterTypeOK' /\ PastInv' /\ ListedInv' /\ ListsAreShort'
<1> DEFINE accounts == [a \in Account |-> Pruned(byAccount[a], AccountWindow, at)]
           addresses == [i \in Address |-> Pruned(byAddress[i], AddressWindow, at)]
           everybody == Pruned(global, GlobalWindow, at)
<1>1. \A e : Append(attempts, e) # attempts
  <2>1. attempts \in Seq(Attempt)
    BY DEF LimiterTypeOK
  <2>2. \A e : Len(Append(attempts, e)) = Len(attempts) + 1 /\ Len(attempts) \in Nat
    BY <2>1
  <2> QED
    BY <2>2
<1>2. byAccount' = accounts /\ byAddress' = addresses /\ global' = everybody /\ clock' = clock
  BY <1>1 DEF Begin
<1>3. /\ \A a \in Account : byAccount[a] \in SUBSET (1 .. Len(attempts))
      /\ \A p \in Address : byAddress[p] \in SUBSET (1 .. Len(attempts))
      /\ global \in SUBSET (1 .. Len(attempts)) /\ Len(attempts) \in Nat
  BY AttemptList DEF LimiterTypeOK
<1>4. /\ \A a \in Account : byAccount'[a] = Pruned(byAccount[a], AccountWindow, at)
      /\ \A p \in Address : byAddress'[p] = Pruned(byAddress[p], AddressWindow, at)
      /\ global' = Pruned(global, GlobalWindow, at)
  BY <1>2
<1>5. /\ \A a \in Account : byAccount'[a] \in SUBSET byAccount[a]
      /\ \A p \in Address : byAddress'[p] \in SUBSET byAddress[p]
      /\ global' \in SUBSET global
  BY <1>3, <1>4, PrunedKeeps, Limits
<1>6. LimiterTypeOK'
  <2>1. byAccount' \in [Account -> SUBSET (1 .. Len(attempts))]
    BY <1>2, <1>3, <1>5
  <2>2. byAddress' \in [Address -> SUBSET (1 .. Len(attempts))]
    BY <1>2, <1>3, <1>5
  <2> QED
    BY <1>2, <1>3, <1>5, <2>1, <2>2 DEF LimiterTypeOK
<1>7. PastInv'
  BY <1>2 DEF PastInv, Completions
<1>8. ListedInv'
  <2>1. ASSUME NEW a \in Account
        PROVE  Guesses(OfAccount(a), AccountWindow)' \subseteq byAccount'[a]
    <3>1. Guesses(OfAccount(a), AccountWindow)' = Guesses(OfAccount(a), AccountWindow)
      BY <1>2 DEF Guesses, OfAccount
    <3>2. \A i \in Guesses(OfAccount(a), AccountWindow) :
             i \in byAccount[a] /\ Recent(attempts[i].at, AccountWindow, clock)
      BY DEF ListedInv, Guesses
    <3> QED
      BY <1>3, <1>4, <3>1, <3>2, PrunedKeeps, Limits
  <2>2. ASSUME NEW p \in Address
        PROVE  Guesses(OfAddress(p), AddressWindow)' \subseteq byAddress'[p]
    <3>1. Guesses(OfAddress(p), AddressWindow)' = Guesses(OfAddress(p), AddressWindow)
      BY <1>2 DEF Guesses, OfAddress
    <3>2. \A i \in Guesses(OfAddress(p), AddressWindow) :
             i \in byAddress[p] /\ Recent(attempts[i].at, AddressWindow, clock)
      BY DEF ListedInv, Guesses
    <3> QED
      BY <1>3, <1>4, <3>1, <3>2, PrunedKeeps, Limits
  <2>3. OfAll' \subseteq global'
    <3>1. OfAll' = OfAll
      BY <1>2 DEF OfAll
    <3>2. \A i \in OfAll : i \in global /\ Recent(attempts[i].at, GlobalWindow, clock)
      BY DEF ListedInv, OfAll
    <3> QED
      BY <1>3, <1>4, <3>1, <3>2, PrunedKeeps, Limits
  <2> QED
    BY <2>1, <2>2, <2>3 DEF ListedInv
<1>9. ListsAreShort'
  <2>1. /\ \A a \in Account : /\ Cardinality(byAccount'[a]) \in Nat /\ Cardinality(byAccount[a]) \in Nat
                              /\ Cardinality(byAccount'[a]) <= Cardinality(byAccount[a])
        /\ \A p \in Address : /\ Cardinality(byAddress'[p]) \in Nat /\ Cardinality(byAddress[p]) \in Nat
                              /\ Cardinality(byAddress'[p]) <= Cardinality(byAddress[p])
        /\ Cardinality(global') \in Nat /\ Cardinality(global) \in Nat
        /\ Cardinality(global') <= Cardinality(global)
    BY <1>3, <1>5, FewerIds, IdsAreFinite
  <2> QED
    BY <2>1, Limits DEF ListsAreShort
<1> QED
  BY <1>6, <1>7, <1>8, <1>9

\* Time only takes attempts out of the windows.
LEMMA LimiterTickStep ==
    ASSUME LimiterTypeOK, PastInv, ListedInv, ListsAreShort, LimiterTick
    PROVE  LimiterTypeOK' /\ PastInv' /\ ListedInv' /\ ListsAreShort'
<1>1. /\ clock \in Nat /\ clock' = clock + 1 /\ clock' \in 0 .. MaxClock
      /\ UNCHANGED <<attempts, byAccount, byAddress, global>>
  BY AttemptList, Limits DEF LimiterTick
<1>2. \A i \in DOMAIN attempts : attempts[i].at \in Nat
  BY AttemptList, Limits
<1>3. ASSUME NEW i \in DOMAIN attempts, NEW window \in Nat, Recent(attempts[i].at, window, clock')
      PROVE  Recent(attempts[i].at, window, clock)
  BY <1>1, <1>2, <1>3 DEF Recent
<1>4. LimiterTypeOK' /\ ListsAreShort'
  BY <1>1 DEF LimiterTypeOK, ListsAreShort
<1>5. PastInv'
  <2>1. Completions' = Completions
    BY <1>1 DEF Completions
  <2> QED
    BY <1>1, <1>2, <2>1 DEF PastInv
<1>6. ASSUME NEW all, all \subseteq DOMAIN attempts, NEW window \in Nat
      PROVE  GuessesAfter(all, window) \subseteq Guesses(all, window)
  BY <1>1, <1>3, <1>6 DEF GuessesAfter, Guesses
<1>7. ListedInv'
  <2>1. /\ \A a \in Account : GuessesAfter(OfAccount(a), AccountWindow) \subseteq byAccount[a]
        /\ \A p \in Address : GuessesAfter(OfAddress(p), AddressWindow) \subseteq byAddress[p]
    BY <1>6, Limits DEF ListedInv, OfAccount, OfAddress
  <2>2. /\ \A a \in Account : Guesses(OfAccount(a), AccountWindow)' = GuessesAfter(OfAccount(a), AccountWindow)
        /\ \A p \in Address : Guesses(OfAddress(p), AddressWindow)' = GuessesAfter(OfAddress(p), AddressWindow)
    BY <1>1 DEF Guesses, GuessesAfter, OfAccount, OfAddress
  <2>3. OfAll' \subseteq OfAll
    BY <1>1, <1>3, Limits DEF OfAll
  <2> QED
    BY <1>1, <2>1, <2>2, <2>3 DEF ListedInv
<1> QED
  BY <1>4, <1>5, <1>7
-----------------------------------------------------------------------------
LimiterInv == LimiterTypeOK /\ PastInv /\ ListedInv /\ ListsAreShort

LEMMA LimiterInvInit == LimiterInit => LimiterInv
<1> SUFFICES ASSUME LimiterInit
             PROVE  LimiterInv
  OBVIOUS
<1>1. /\ clock = 0 /\ attempts = <<>> /\ global = {}
      /\ byAccount = [a \in Account |-> {}] /\ byAddress = [p \in Address |-> {}]
  BY DEF LimiterInit
<1>2. attempts \in Seq(Attempt) /\ Len(attempts) = 0 /\ DOMAIN attempts = {}
  BY <1>1
<1>3. LimiterTypeOK
  BY <1>1, <1>2, Limits DEF LimiterTypeOK
<1>4. PastInv /\ ListedInv
  BY <1>2 DEF PastInv, ListedInv, Guesses, OfAccount, OfAddress, OfAll
<1>5. ListsAreShort
  BY <1>1, FS_EmptySet, Limits DEF ListsAreShort
<1> QED
  BY <1>3, <1>4, <1>5 DEF LimiterInv

LEMMA LimiterInvStep == LimiterInv /\ [LimiterNext]_limiterVars => LimiterInv'
<1> SUFFICES ASSUME LimiterInv, [LimiterNext]_limiterVars
             PROVE  LimiterInv'
  OBVIOUS
<1> USE DEF LimiterInv
<1>1. ASSUME NEW account \in Account, NEW address \in Address, NEW at \in 0 .. clock,
             Begin(account, address, at)
      PROVE  LimiterInv'
  BY <1>1, Allowed, Refused
<1>2. ASSUME NEW id \in DOMAIN attempts, Fail(id) \/ Succeed(id)
      PROVE  LimiterInv'
  BY <1>2, FailStep, SucceedStep
<1>3. CASE LimiterTick
  BY <1>3, LimiterTickStep
<1>4. CASE UNCHANGED limiterVars
  BY <1>4 DEF limiterVars, LimiterTypeOK, PastInv, Completions, ListedInv, Guesses,
              OfAccount, OfAddress, OfAll, ListsAreShort
<1> QED
  BY <1>1, <1>2, <1>3, <1>4 DEF LimiterNext

\* What counts is listed, and the lists are short.
LEMMA ListedAreLimited == LimiterInv => GuessesAreLimited
<1> SUFFICES ASSUME LimiterInv
             PROVE  GuessesAreLimited
  OBVIOUS
<1>1. /\ LimiterTypeOK /\ Len(attempts) \in Nat
      /\ \A a \in Account : byAccount[a] \in SUBSET (1 .. Len(attempts))
      /\ \A p \in Address : byAddress[p] \in SUBSET (1 .. Len(attempts))
      /\ global \in SUBSET (1 .. Len(attempts))
  BY AttemptList DEF LimiterInv, LimiterTypeOK
<1>2. /\ \A a \in Account : Guesses(OfAccount(a), AccountWindow) \in SUBSET byAccount[a]
      /\ \A p \in Address : Guesses(OfAddress(p), AddressWindow) \in SUBSET byAddress[p]
      /\ OfAll \in SUBSET global
  BY DEF LimiterInv, ListedInv
<1>3. \A a \in Account : Cardinality(Guesses(OfAccount(a), AccountWindow)) <= AccountAttempts
  <2> TAKE a \in Account
  <2>1. /\ Cardinality(Guesses(OfAccount(a), AccountWindow)) \in Nat
        /\ Cardinality(Guesses(OfAccount(a), AccountWindow)) <= Cardinality(byAccount[a])
        /\ Cardinality(byAccount[a]) \in Nat
    BY <1>1, <1>2, FewerIds, IdsAreFinite
  <2> QED
    BY <2>1, Limits DEF LimiterInv, ListsAreShort
<1>4. \A p \in Address : Cardinality(Guesses(OfAddress(p), AddressWindow)) <= AddressAttempts
  <2> TAKE p \in Address
  <2>1. /\ Cardinality(Guesses(OfAddress(p), AddressWindow)) \in Nat
        /\ Cardinality(Guesses(OfAddress(p), AddressWindow)) <= Cardinality(byAddress[p])
        /\ Cardinality(byAddress[p]) \in Nat
    BY <1>1, <1>2, FewerIds, IdsAreFinite
  <2> QED
    BY <2>1, Limits DEF LimiterInv, ListsAreShort
<1>5. Cardinality(OfAll) <= GlobalAttempts
  <2>1. /\ Cardinality(OfAll) \in Nat /\ Cardinality(OfAll) <= Cardinality(global)
        /\ Cardinality(global) \in Nat
    BY <1>1, <1>2, FewerIds, IdsAreFinite
  <2> QED
    BY <2>1, Limits DEF LimiterInv, ListsAreShort
<1> QED
  BY <1>3, <1>4, <1>5 DEF GuessesAreLimited, OfAccount, OfAddress, OfAll

\* No account, no address and not everybody together is given more guesses in
\* a window than its limit, for any limits and windows, any number of attempts
\* and however they overlap (LoginRateLimiter.Begin, complete).
THEOREM GuessesAlwaysLimited == LimiterSpec => []GuessesAreLimited
<1>1. LimiterSpec => []LimiterInv
  BY LimiterInvInit, LimiterInvStep, PTL DEF LimiterSpec
<1> QED
  BY <1>1, ListedAreLimited, PTL

\* The lists hold ids of attempts let in, and each attempt is well formed.
THEOREM LimiterTypeCorrect == LimiterSpec => []LimiterTypeOK
<1>1. LimiterInv => LimiterTypeOK
  BY DEF LimiterInv
<1>2. LimiterSpec => []LimiterInv
  BY LimiterInvInit, LimiterInvStep, PTL DEF LimiterSpec
<1> QED
  BY <1>1, <1>2, PTL
-----------------------------------------------------------------------------
(* RealitySearch.                                                           *)

Activity == {"none", "ready", "probing", "sending"}

SearchStates ==
    /\ status \in {"idle", "running", "completed", "failed"}
    /\ feeder \in {"none", "hand out", "give up", "finish"}
    /\ worker \in [Worker -> Activity]
    /\ spent \in BOOLEAN

SearchNumbers ==
    /\ targets \in 0 .. SampleLimit
    /\ sampled \in 0 .. SampleLimit
    /\ handed \in 0 .. sampled
    /\ results \in Nat

\* The goroutines of a search run while the service shows it running.
SearchStages ==
    /\ status = "running" <=> feeder # "none"
    /\ feeder = "none" => \A w \in Worker : worker[w] = "none"
    /\ feeder = "hand out" => \A w \in Worker : worker[w] # "none"
    /\ feeder = "finish" => handed = sampled

\* What is in the channel or on its way into it was handed out before.
Senders == Workers({"probing", "sending"})
SendersHaveRoom == results + Cardinality(Senders) <= handed

SearchInv == SearchStates /\ SearchNumbers /\ SearchStages /\ SendersHaveRoom

LEMMA SearchConstants == SampleLimit \in Nat /\ IsFiniteSet(Worker) /\ Worker # {}
  BY SampleLimitAssumption, WorkerAssumption

LEMMA WorkersCount ==
    ASSUME NEW states
    PROVE  IsFiniteSet(Workers(states)) /\ Cardinality(Workers(states)) \in Nat
<1>1. Workers(states) \in SUBSET Worker
  BY DEF Workers
<1>2. IsFiniteSet(Workers(states))
  BY <1>1, SearchConstants, FS_Subset
<1> QED
  BY <1>2, FS_CardinalityType

\* A worker that goes on is counted where it now is.
LEMMA WorkerMoves ==
    ASSUME worker \in [Worker -> Activity], NEW states, NEW w \in Worker, NEW now,
           worker' = [worker EXCEPT ![w] = now]
    PROVE  Cardinality(Workers(states)') =
             Cardinality(Workers(states)) + (IF now \in states THEN 1 ELSE 0)
                                          - (IF worker[w] \in states THEN 1 ELSE 0)
<1> DEFINE before == Workers(states)
           after == {v \in Worker : worker'[v] \in states}
<1>0. Workers(states)' = after
  BY DEF Workers
<1>1. \A v \in Worker : worker'[v] = IF v = w THEN now ELSE worker[v]
  OBVIOUS
<1>2. w \in before <=> worker[w] \in states
  BY DEF Workers
<1>3. IsFiniteSet(before) /\ Cardinality(before) \in Nat
  BY WorkersCount
<1>4. CASE now \in states
  <2>1. after = before \union {w}
    BY <1>1, <1>4 DEF Workers
  <2>2. Cardinality(before \union {w}) = IF w \in before THEN Cardinality(before) ELSE Cardinality(before) + 1
    BY <1>3, FS_AddElement
  <2> HIDE DEF before, after
  <2> QED
    BY <1>0, <1>2, <1>3, <1>4, <2>1, <2>2 DEF before
<1>5. CASE now \notin states
  <2>1. after = before \ {w}
    BY <1>1, <1>5 DEF Workers
  <2>2. Cardinality(before \ {w}) = IF w \in before THEN Cardinality(before) - 1 ELSE Cardinality(before)
    BY <1>3, FS_RemoveElement
  <2> HIDE DEF before, after
  <2> QED
    BY <1>0, <1>2, <1>3, <1>5, <2>1, <2>2 DEF before
<1> QED
  BY <1>4, <1>5

LEMMA SendersCount == Cardinality(Senders) \in Nat /\ IsFiniteSet(Senders)
  BY WorkersCount DEF Senders

LEMMA NoSenders ==
    ASSUME \A w \in Worker : worker[w] \notin {"probing", "sending"}
    PROVE  Cardinality(Senders) = 0
<1>1. Senders = {}
  BY DEF Senders, Workers
<1> QED
  BY <1>1, FS_EmptySet

LEMMA SenderMoves ==
    ASSUME worker \in [Worker -> Activity], NEW w \in Worker, NEW now,
           worker' = [worker EXCEPT ![w] = now]
    PROVE  Cardinality(Senders') =
             Cardinality(Senders) + (IF now \in {"probing", "sending"} THEN 1 ELSE 0)
                                  - (IF worker[w] \in {"probing", "sending"} THEN 1 ELSE 0)
  BY WorkerMoves DEF Senders

LEMMA SearchInvInit == SearchInit => SearchInv
<1> SUFFICES ASSUME SearchInit
             PROVE  SearchInv
  OBVIOUS
<1>1. SearchStates
  BY DEF SearchInit, SearchStates, Activity
<1>2. SearchNumbers
  BY SearchConstants DEF SearchInit, SearchNumbers
<1>3. SearchStages
  BY DEF SearchInit, SearchStages
<1>4. Cardinality(Senders) = 0
  BY NoSenders DEF SearchInit
<1>5. SendersHaveRoom
  BY <1>4 DEF SearchInit, SendersHaveRoom
<1> QED
  BY <1>1, <1>2, <1>3, <1>5 DEF SearchInv

LEMMA SearchStatesStep == SearchInv /\ [SearchNext]_searchVars => SearchStates' /\ SearchStages'
<1> SUFFICES ASSUME SearchInv, [SearchNext]_searchVars
             PROVE  SearchStates' /\ SearchStages'
  OBVIOUS
<1> USE DEF SearchInv, SearchStates, SearchStages, Activity
<1>1. ASSUME NEW n \in 0 .. SampleLimit, StartSearch(n)
      PROVE  SearchStates' /\ SearchStages'
  BY <1>1 DEF StartSearch
<1>2. CASE StartFails
  BY <1>2 DEF StartFails
<1>3. CASE BudgetEnds
  BY <1>3 DEF BudgetEnds
<1>4. CASE CloseWork
  BY <1>4 DEF CloseWork
<1>5. ASSUME NEW w \in Worker, HandOut(w)
      PROVE  SearchStates' /\ SearchStages'
  BY <1>5 DEF HandOut
<1>6. ASSUME NEW w \in Worker, Send(w)
      PROVE  SearchStates' /\ SearchStages'
  BY <1>6 DEF Send
<1>7. ASSUME NEW w \in Worker, Leave(w)
      PROVE  SearchStates' /\ SearchStages'
  BY <1>7 DEF Leave
<1>8. ASSUME NEW w \in Worker, NEW confirmed \in BOOLEAN, ProbeEnds(w, confirmed)
      PROVE  SearchStates' /\ SearchStages'
  BY <1>8 DEF ProbeEnds
<1>9. CASE Publish
  BY <1>9 DEF Publish
<1>10. CASE SearchRestart
  BY <1>10 DEF SearchRestart
<1>11. CASE UNCHANGED searchVars
  BY <1>11 DEF searchVars
<1> QED
  BY <1>1, <1>2, <1>3, <1>4, <1>5, <1>6, <1>7, <1>8, <1>9, <1>10, <1>11 DEF SearchNext

LEMMA SearchNumbersStep == SearchInv /\ [SearchNext]_searchVars => SearchNumbers' /\ SendersHaveRoom'
<1> SUFFICES ASSUME SearchInv, [SearchNext]_searchVars
             PROVE  SearchNumbers' /\ SendersHaveRoom'
  OBVIOUS
<1> DEFINE busy == Cardinality(Senders)
           busyNext == Cardinality(Senders')
           one(now) == IF now \in {"probing", "sending"} THEN 1 ELSE 0
<1>0. /\ SampleLimit \in Nat /\ busy \in Nat /\ SearchNumbers /\ SendersHaveRoom
      /\ SendersHaveRoom' <=> results' + busyNext <= handed'
  BY SearchConstants, SendersCount DEF SearchInv, SendersHaveRoom
<1>1. ASSUME worker' = worker, UNCHANGED <<targets, sampled, handed, results>>
      PROVE  SearchNumbers' /\ SendersHaveRoom'
  BY <1>0, <1>1 DEF SearchNumbers, SendersHaveRoom, Senders, Workers
<1>2. ASSUME NEW w \in Worker, NEW now, worker' = [worker EXCEPT ![w] = now]
      PROVE  busyNext = busy + one(now) - one(worker[w])
  BY <1>2, SenderMoves DEF SearchInv, SearchStates
<1>3. ASSUME \A w \in Worker : worker'[w] \notin {"probing", "sending"}, results' = 0,
             targets' \in 0 .. SampleLimit, sampled' \in 0 .. SampleLimit, handed' \in 0 .. sampled'
      PROVE  SearchNumbers' /\ SendersHaveRoom'
  <2>1. Senders' = {}
    BY <1>3 DEF Senders, Workers
  <2>2. busyNext = 0
    BY <2>1, FS_EmptySet
  <2>3. 0 <= handed'
    BY <1>0, <1>3
  <2> HIDE DEF busyNext
  <2>4. SendersHaveRoom'
    BY <1>0, <1>3, <2>2, <2>3
  <2> QED
    BY <1>3, <2>4 DEF SearchNumbers
<1>4. ASSUME NEW n \in 0 .. SampleLimit, StartSearch(n)
      PROVE  SearchNumbers' /\ SendersHaveRoom'
  <2>1. \A w \in Worker : worker'[w] \notin {"probing", "sending"}
    BY <1>4 DEF StartSearch
  <2>2. results' = 0 /\ targets' = 0 /\ sampled' = n /\ handed' = 0
    BY <1>4 DEF StartSearch
  <2>3. targets' \in 0 .. SampleLimit /\ sampled' \in 0 .. SampleLimit /\ handed' \in 0 .. sampled'
    BY <1>0, <2>2
  <2> QED
    BY <1>3, <2>1, <2>2, <2>3
<1>5. CASE StartFails
  <2>1. worker' = worker /\ UNCHANGED <<sampled, handed, results>> /\ targets' = 0
    BY <1>5 DEF StartFails
  <2>2. Senders' = Senders
    BY <2>1 DEF Senders, Workers
  <2> QED
    BY <1>0, <2>1, <2>2 DEF SearchNumbers, SendersHaveRoom
<1>6. CASE BudgetEnds \/ CloseWork \/ UNCHANGED searchVars
  BY <1>1, <1>6 DEF BudgetEnds, CloseWork, searchVars
<1>7. ASSUME NEW w \in Worker, HandOut(w)
      PROVE  SearchNumbers' /\ SendersHaveRoom'
  <2>1. busyNext = busy + 1
    <3>1. worker' = [worker EXCEPT ![w] = "probing"] /\ worker[w] = "ready"
      BY <1>7 DEF HandOut
    <3>2. one("probing") = 1 /\ one(worker[w]) = 0
      BY <3>1
    <3> HIDE DEF busy, busyNext, one
    <3>3. busyNext = busy + one("probing") - one(worker[w])
      BY <1>2, <3>1
    <3> QED
      BY <1>0, <3>2, <3>3
  <2>2. handed < sampled /\ handed' = handed + 1 /\ UNCHANGED <<targets, sampled, results>>
    BY <1>7 DEF HandOut
  <2> HIDE DEF busy, busyNext
  <2>3. SearchNumbers'
    BY <1>0, <2>2 DEF SearchNumbers
  <2>4. results + busy <= handed
    BY <1>0 DEF SendersHaveRoom, busy
  <2> QED
    BY <1>0, <2>1, <2>2, <2>3, <2>4 DEF SearchNumbers
<1>8. ASSUME NEW w \in Worker, Send(w)
      PROVE  SearchNumbers' /\ SendersHaveRoom'
  <2>1. busyNext = busy - 1
    <3>1. worker' = [worker EXCEPT ![w] = "ready"] /\ worker[w] = "sending"
      BY <1>8 DEF Send
    <3>2. one("ready") = 0 /\ one(worker[w]) = 1
      BY <3>1
    <3> HIDE DEF busy, busyNext, one
    <3>3. busyNext = busy + one("ready") - one(worker[w])
      BY <1>2, <3>1
    <3> QED
      BY <1>0, <3>2, <3>3
  <2>2. results' = results + 1 /\ UNCHANGED <<targets, sampled, handed>>
    BY <1>8 DEF Send
  <2> HIDE DEF busy, busyNext
  <2>3. SearchNumbers'
    BY <1>0, <2>2 DEF SearchNumbers
  <2>4. results + busy <= handed
    BY <1>0 DEF SendersHaveRoom, busy
  <2> QED
    BY <1>0, <2>1, <2>2, <2>3, <2>4 DEF SearchNumbers
<1>9. ASSUME NEW w \in Worker, NEW now, worker' = [worker EXCEPT ![w] = now],
             one(now) <= one(worker[w]), UNCHANGED <<targets, sampled, handed, results>>
      PROVE  SearchNumbers' /\ SendersHaveRoom'
  <2>1. busyNext = busy + one(now) - one(worker[w])
    BY <1>2, <1>9
  <2>2. one(now) \in Int /\ one(worker[w]) \in Int
    OBVIOUS
  <2>3. results + busy <= handed
    BY <1>0 DEF SendersHaveRoom
  <2>4. SearchNumbers'
    BY <1>0, <1>9 DEF SearchNumbers
  <2> HIDE DEF busy, busyNext, one
  <2>5. results' + busyNext <= handed'
    BY <1>0, <1>9, <2>1, <2>2, <2>3 DEF SearchNumbers
  <2> QED
    BY <1>0, <2>4, <2>5
<1>10. ASSUME NEW w \in Worker, Leave(w)
      PROVE  SearchNumbers' /\ SendersHaveRoom'
  <2>1. /\ worker' = [worker EXCEPT ![w] = "none"] /\ worker[w] = "ready"
        /\ UNCHANGED <<targets, sampled, handed, results>>
    BY <1>10 DEF Leave
  <2>2. one("none") <= one(worker[w])
    BY <2>1
  <2> HIDE DEF one
  <2> QED
    BY <1>9, <2>1, <2>2
<1>11. ASSUME NEW w \in Worker, NEW confirmed \in BOOLEAN, ProbeEnds(w, confirmed)
      PROVE  SearchNumbers' /\ SendersHaveRoom'
  <2>1. PICK now \in {"sending", "ready"} : worker' = [worker EXCEPT ![w] = now]
    BY <1>11 DEF ProbeEnds
  <2>2. worker[w] = "probing" /\ UNCHANGED <<targets, sampled, handed, results>>
    BY <1>11 DEF ProbeEnds
  <2>3. one(now) <= one(worker[w])
    BY <2>1, <2>2
  <2> HIDE DEF one
  <2> QED
    BY <1>9, <2>1, <2>2, <2>3
<1>12. CASE Publish
  <2>1. /\ \A w \in Worker : worker'[w] \notin {"probing", "sending"}
        /\ results' = 0 /\ targets' \in {results, 0} /\ UNCHANGED <<sampled, handed>>
    BY <1>12 DEF Publish
  <2>2. results <= SampleLimit
    BY <1>0 DEF SearchNumbers, SendersHaveRoom
  <2>3. /\ targets' \in 0 .. SampleLimit /\ sampled' \in 0 .. SampleLimit /\ handed' \in 0 .. sampled'
    BY <1>0, <2>1, <2>2 DEF SearchNumbers
  <2> QED
    BY <1>3, <2>1, <2>3
<1>13. CASE SearchRestart
  <2>1. /\ \A w \in Worker : worker'[w] \notin {"probing", "sending"}
        /\ results' = 0 /\ targets' = 0 /\ UNCHANGED <<sampled, handed>>
    BY <1>13 DEF SearchRestart
  <2>2. /\ targets' \in 0 .. SampleLimit /\ sampled' \in 0 .. SampleLimit /\ handed' \in 0 .. sampled'
    BY <1>0, <2>1 DEF SearchNumbers
  <2> QED
    BY <1>3, <2>1, <2>2
<1> QED
  BY <1>4, <1>5, <1>6, <1>7, <1>8, <1>10, <1>11, <1>12, <1>13 DEF SearchNext

LEMMA SearchInvAlways == SearchSpec => []SearchInv
<1>1. SearchInv /\ [SearchNext]_searchVars => SearchInv'
  BY SearchStatesStep, SearchNumbersStep DEF SearchInv
<1> QED
  BY SearchInvInit, <1>1, PTL DEF SearchSpec

\* The search hands out no more than it sampled, and shows no more targets.
THEOREM SearchTypeCorrect == SearchSpec => []SearchTypeOK
<1>1. SearchInv => SearchTypeOK
  <2> SUFFICES ASSUME SearchInv
               PROVE  SearchTypeOK
    OBVIOUS
  <2>1. results \in 0 .. handed
    BY SearchConstants, SendersCount DEF SearchInv, SearchNumbers, SendersHaveRoom
  <2> QED
    BY <2>1 DEF SearchInv, SearchStates, SearchNumbers, SearchTypeOK, Activity
<1> QED
  BY <1>1, SearchInvAlways, PTL

\* While a search runs one of its goroutines can always go on: the sends that
\* are under way fit in the channel, whatever the sample and the number of
\* workers, and with at least one worker the feeder is never alone (Search).
THEOREM SearchNeverGetsStuck == SearchSpec => []SearchNeverStuck
<1>1. SearchInv => SearchNeverStuck
  <2> SUFFICES ASSUME SearchInv, status = "running"
               PROVE  SearchNeverStuck
    BY DEF SearchNeverStuck
  <2>1. \A w \in Worker : worker[w] \in Activity
    BY DEF SearchInv, SearchStates
  <2>2. feeder \in {"hand out", "give up", "finish"}
    BY DEF SearchInv, SearchStates, SearchStages
  <2>3. ASSUME NEW w \in Worker, worker[w] = "sending"
        PROVE  Room
    <3>1. w \in Senders
      BY <2>3 DEF Senders, Workers
    <3>2. Cardinality(Senders) # 0 /\ Cardinality(Senders) \in Nat
      BY <3>1, SendersCount, FS_EmptySet
    <3>3. SearchNumbers /\ SendersHaveRoom /\ SampleLimit \in Nat
      BY SearchConstants DEF SearchInv
    <3> QED
      BY <3>2, <3>3 DEF SearchNumbers, SendersHaveRoom, Room
  <2>4. CASE feeder = "hand out"
    <3>1. PICK w \in Worker : TRUE
      BY SearchConstants
    <3>2. worker[w] \in {"ready", "probing", "sending"}
      BY <2>1, <2>4 DEF SearchInv, SearchStages, Activity
    <3>3. handed = sampled \/ handed < sampled
      BY SearchConstants DEF SearchInv, SearchNumbers
    <3> QED
      BY <2>3, <2>4, <3>2, <3>3 DEF SearchNeverStuck
  <2>5. CASE feeder \in {"give up", "finish"}
    <3>1. CASE \A w \in Worker : worker[w] = "none"
      BY <2>5, <3>1 DEF SearchNeverStuck
    <3>2. ASSUME NEW w \in Worker, worker[w] # "none"
          PROVE  SearchNeverStuck
      BY <2>1, <2>3, <2>5, <3>2 DEF SearchNeverStuck, Activity
    <3> QED
      BY <3>1, <3>2
  <2> QED
    BY <2>2, <2>4, <2>5
<1> QED
  BY <1>1, SearchInvAlways, PTL

Weight(activity) ==
    CASE activity = "probing" -> 3
      [] activity = "sending" -> 2
      [] activity = "ready" -> 1
      [] OTHER -> 0

LEMMA WorkersLeftMoves ==
    ASSUME worker \in [Worker -> Activity], NEW w \in Worker, NEW now \in Activity,
           worker' = [worker EXCEPT ![w] = now]
    PROVE  WorkersLeft' = WorkersLeft + Weight(now) - Weight(worker[w])
<1> DEFINE one(states, activity) == IF activity \in states THEN 1 ELSE 0
           P == {"probing"}
           S == {"probing", "sending"}
           R == {"probing", "sending", "ready"}
<1>1. ASSUME NEW states
      PROVE  /\ Cardinality(Workers(states)) \in Nat
             /\ Cardinality(Workers(states)') =
                  Cardinality(Workers(states)) + one(states, now) - one(states, worker[w])
  BY WorkersCount, WorkerMoves
<1>2. \A a \in Activity : /\ Weight(a) = one(P, a) + one(S, a) + one(R, a)
                          /\ one(P, a) \in Nat /\ one(S, a) \in Nat /\ one(R, a) \in Nat
  BY DEF Weight, Activity
<1>3. /\ WorkersLeft = Cardinality(Workers(P)) + Cardinality(Workers(S)) + Cardinality(Workers(R))
      /\ WorkersLeft' = Cardinality(Workers(P)') + Cardinality(Workers(S)') + Cardinality(Workers(R)')
  BY DEF WorkersLeft
<1>4. worker[w] \in Activity
  OBVIOUS
<1> HIDE DEF one, P, S, R
<1>5. /\ Cardinality(Workers(P)) \in Nat
      /\ Cardinality(Workers(P)') = Cardinality(Workers(P)) + one(P, now) - one(P, worker[w])
  BY <1>1
<1>6. /\ Cardinality(Workers(S)) \in Nat
      /\ Cardinality(Workers(S)') = Cardinality(Workers(S)) + one(S, now) - one(S, worker[w])
  BY <1>1
<1>7. /\ Cardinality(Workers(R)) \in Nat
      /\ Cardinality(Workers(R)') = Cardinality(Workers(R)) + one(R, now) - one(R, worker[w])
  BY <1>1
<1> QED
  BY <1>2, <1>3, <1>4, <1>5, <1>6, <1>7

LEMMA WorkersLeftType == WorkersLeft \in Nat
  BY WorkersCount DEF WorkersLeft

\* Every step of a running search brings its end nearer, so that it takes at
\* most three steps per domain and worker and a few of the feeder; with the
\* theorem before, this is what of SearchEnds does not depend on fairness.
THEOREM SearchAlwaysAdvances == SearchSpec => SearchAdvances
<1>1. SearchInv /\ [SearchNext]_searchVars =>
        [status = "running" /\ status' = "running" => WorkLeft' < WorkLeft]_searchVars
  <2> SUFFICES ASSUME SearchInv, SearchNext, status = "running", status' = "running"
               PROVE  WorkLeft' < WorkLeft
    OBVIOUS
  <2>0. /\ sampled \in Int /\ handed \in Int /\ WorkersLeft \in Int /\ FeederLeft \in Int
    BY SearchConstants, WorkersLeftType DEF SearchInv, SearchNumbers, FeederLeft
  <2>1. worker \in [Worker -> Activity] /\ spent \in BOOLEAN
    BY DEF SearchInv, SearchStates
  <2>2. ASSUME UNCHANGED <<feeder, spent>>
        PROVE  FeederLeft' = FeederLeft
    BY <2>2 DEF FeederLeft
  <2>3. ASSUME NEW w \in Worker, NEW now \in Activity, worker' = [worker EXCEPT ![w] = now],
               UNCHANGED <<feeder, spent, sampled>>, handed' \in Int,
               Weight(now) - 3 * handed' < Weight(worker[w]) - 3 * handed
        PROVE  WorkLeft' < WorkLeft
    <3>1. WorkersLeft' = WorkersLeft + Weight(now) - Weight(worker[w])
      BY <2>1, <2>3, WorkersLeftMoves
    <3>2. Weight(now) \in Int /\ Weight(worker[w]) \in Int
      BY <2>1, <2>3 DEF Weight, Activity
    <3>3. PICK more \in Int, less \in Int, later \in Int :
            more = Weight(now) /\ less = Weight(worker[w]) /\ handed' = later
      BY <2>3, <3>2
    <3>4. 3 * (sampled - later) + (WorkersLeft + more - less) + FeederLeft
            < 3 * (sampled - handed) + WorkersLeft + FeederLeft
      BY <2>0, <2>3, <3>3
    <3> QED
      BY <2>2, <2>3, <3>1, <3>3, <3>4 DEF WorkLeft
  <2>4. ASSUME UNCHANGED <<sampled, handed, worker>>, FeederLeft' < FeederLeft, FeederLeft' \in Int
        PROVE  WorkLeft' < WorkLeft
    <3>1. WorkersLeft' = WorkersLeft
      BY <2>4 DEF WorkersLeft, Workers
    <3>2. PICK later \in Int : FeederLeft' = later
      BY <2>4
    <3>3. 3 * (sampled - handed) + WorkersLeft + later < 3 * (sampled - handed) + WorkersLeft + FeederLeft
      BY <2>0, <2>4, <3>2
    <3>4. WorkLeft' = 3 * (sampled - handed) + WorkersLeft + later
      BY <2>4, <3>1, <3>2 DEF WorkLeft
    <3> QED
      BY <3>3, <3>4 DEF WorkLeft
  <2>5. CASE BudgetEnds
    BY <2>4, <2>5 DEF BudgetEnds, FeederLeft
  <2>6. CASE CloseWork
    <3>1. UNCHANGED <<sampled, handed, worker>> /\ UNCHANGED spent /\ feeder = "hand out" /\ feeder' # "hand out"
      BY <2>6 DEF CloseWork
    <3>2. PICK budget \in {0, 1} : budget = (IF spent THEN 0 ELSE 1)
      BY <2>1
    <3>3. FeederLeft = 1 + budget
      BY <3>1, <3>2 DEF FeederLeft
    <3>4. (IF spent' THEN 0 ELSE 1) = budget
      BY <3>1, <3>2
    <3>5. (IF feeder' = "hand out" THEN 1 ELSE 0) = 0
      BY <3>1
    <3>6. FeederLeft' = 0 + budget
      BY <3>4, <3>5, Zenon DEF FeederLeft
    <3>7. FeederLeft' < FeederLeft /\ FeederLeft' \in Int
      BY <3>3, <3>6
    <3> QED
      BY <2>4, <3>1, <3>7, Zenon
  <2>7. ASSUME NEW w \in Worker, HandOut(w)
        PROVE  WorkLeft' < WorkLeft
    <3>1. /\ worker' = [worker EXCEPT ![w] = "probing"] /\ worker[w] = "ready"
          /\ handed' = handed + 1 /\ UNCHANGED <<feeder, spent, sampled>>
      BY <2>7 DEF HandOut
    <3>2. Weight("probing") = 3 /\ Weight(worker[w]) = 1 /\ "probing" \in Activity
      BY <3>1 DEF Weight, Activity
    <3>3. handed' \in Int /\ Weight("probing") - 3 * handed' < Weight(worker[w]) - 3 * handed
      BY <2>0, <3>1, <3>2
    <3> QED
      BY <2>3, <3>1, <3>2, <3>3
  <2>8. ASSUME NEW w \in Worker, NEW now \in Activity, worker' = [worker EXCEPT ![w] = now],
               Weight(now) < Weight(worker[w]), UNCHANGED <<feeder, spent, sampled, handed>>
        PROVE  WorkLeft' < WorkLeft
    <3>1. Weight(now) \in Int /\ Weight(worker[w]) \in Int
      BY <2>1, <2>8 DEF Weight, Activity
    <3>2. handed' \in Int /\ Weight(now) - 3 * handed' < Weight(worker[w]) - 3 * handed
      BY <2>0, <2>8, <3>1
    <3> QED
      BY <2>3, <2>8, <3>2
  <2>9. ASSUME NEW w \in Worker, NEW confirmed \in BOOLEAN, ProbeEnds(w, confirmed)
        PROVE  WorkLeft' < WorkLeft
    <3>1. PICK now \in {"sending", "ready"} : worker' = [worker EXCEPT ![w] = now]
      BY <2>9 DEF ProbeEnds
    <3>2. worker[w] = "probing" /\ UNCHANGED <<feeder, spent, sampled, handed>>
      BY <2>9 DEF ProbeEnds
    <3>3. now \in Activity /\ Weight(now) < Weight(worker[w])
      BY <3>1, <3>2 DEF Weight, Activity
    <3> QED
      BY <2>8, <3>1, <3>2, <3>3
  <2>10. ASSUME NEW w \in Worker, Send(w)
         PROVE  WorkLeft' < WorkLeft
    <3>1. /\ worker' = [worker EXCEPT ![w] = "ready"] /\ worker[w] = "sending"
          /\ UNCHANGED <<feeder, spent, sampled, handed>>
      BY <2>10 DEF Send
    <3>2. "ready" \in Activity /\ Weight("ready") < Weight(worker[w])
      BY <3>1 DEF Weight, Activity
    <3> QED
      BY <2>8, <3>1, <3>2
  <2>11. ASSUME NEW w \in Worker, Leave(w)
         PROVE  WorkLeft' < WorkLeft
    <3>1. /\ worker' = [worker EXCEPT ![w] = "none"] /\ worker[w] = "ready"
          /\ UNCHANGED <<feeder, spent, sampled, handed>>
      BY <2>11 DEF Leave
    <3>2. "none" \in Activity /\ Weight("none") < Weight(worker[w])
      BY <3>1 DEF Weight, Activity
    <3> QED
      BY <2>8, <3>1, <3>2
  <2>12. ~StartFails /\ ~Publish /\ ~SearchRestart /\ \A n \in 0 .. SampleLimit : ~StartSearch(n)
    BY DEF StartFails, Publish, SearchRestart, StartSearch
  <2> QED
    BY <2>5, <2>6, <2>7, <2>9, <2>10, <2>11, <2>12 DEF SearchNext
<1> QED
  BY <1>1, SearchInvAlways, PTL DEF SearchSpec, SearchAdvances

\* What is left to do is a natural number and bounded from the start, so that a
\* search takes at most so many steps: three for each worker and domain, two of
\* the feeder.
THEOREM SearchWorkBounded ==
    SearchSpec => [](WorkLeft \in 0 .. 3 * SampleLimit + 3 * Cardinality(Worker) + 2)
<1>1. SearchInv => WorkLeft \in 0 .. 3 * SampleLimit + 3 * Cardinality(Worker) + 2
  <2> SUFFICES ASSUME SearchInv
               PROVE  WorkLeft \in 0 .. 3 * SampleLimit + 3 * Cardinality(Worker) + 2
    OBVIOUS
  <2>1. Cardinality(Worker) \in Nat
    BY SearchConstants, FS_CardinalityType
  <2>2. ASSUME NEW states
        PROVE  Cardinality(Workers(states)) \in Nat /\ Cardinality(Workers(states)) <= Cardinality(Worker)
    <3>1. Workers(states) \subseteq Worker
      BY DEF Workers
    <3> QED
      BY <3>1, SearchConstants, WorkersCount, FS_Subset
  <2>3. WorkersLeft \in Nat /\ WorkersLeft <= 3 * Cardinality(Worker)
    <3> DEFINE all == Cardinality(Worker)
               p == Cardinality(Workers({"probing"}))
               s == Cardinality(Workers({"probing", "sending"}))
               r == Cardinality(Workers({"probing", "sending", "ready"}))
    <3>1. p \in Nat /\ p <= all /\ s \in Nat /\ s <= all /\ r \in Nat /\ r <= all /\ all \in Nat
      BY <2>1, <2>2
    <3>2. WorkersLeft = p + s + r
      BY DEF WorkersLeft
    <3> HIDE DEF p, s, r, all
    <3>3. p + s + r \in Nat /\ p + s + r <= 3 * all
      BY <3>1
    <3> QED
      BY <3>2, <3>3 DEF all
  <2>4. FeederLeft \in 0 .. 2
    <3>1. FeederLeft \in {0 + 0, 0 + 1, 1 + 0, 1 + 1}
      BY DEF FeederLeft
    <3> QED
      BY <3>1
  <2>5. /\ sampled \in Nat /\ handed \in Nat /\ SampleLimit \in Nat
        /\ handed <= sampled /\ sampled <= SampleLimit
    BY SearchConstants DEF SearchInv, SearchNumbers
  <2> QED
    BY <2>1, <2>3, <2>4, <2>5 DEF WorkLeft
<1> QED
  BY <1>1, SearchInvAlways, PTL
-----------------------------------------------------------------------------
(* The composition.  Each part is a view of Operations: what one part does  *)
(* leaves the variables of the others alone.                                *)

\* A behaviour of Operations is a behaviour of each of its parts, so that what
\* is proved of a part holds wherever it runs beside the others; the weaker
\* start of Operations only leaves out states of the parts.
THEOREM PartsRunTogether ==
    Spec => AdminSpec /\ LimiterSpec /\ TokenSpec /\ HealthSpec /\ SearchSpec /\ BackupSpec
<1>1. Init => AdminInit /\ LimiterInit /\ TokenInit /\ HealthInit /\ SearchInit /\ BackupInit
  BY DEF Init
<1>2. [Next]_operationsVars => [AdminNext]_adminVars
  BY DEF Next, operationsVars, AdminStep, LimiterStep, TokenStep, HealthStep, SearchStep, BackupStep
<1>3. [Next]_operationsVars => [LimiterNext]_limiterVars
  BY DEF Next, operationsVars, AdminStep, LimiterStep, TokenStep, HealthStep, SearchStep, BackupStep
<1>4. [Next]_operationsVars => [TokenNext]_tokenVars
  BY DEF Next, operationsVars, AdminStep, LimiterStep, TokenStep, HealthStep, SearchStep, BackupStep
<1>5. [Next]_operationsVars => [HealthNext]_healthVars
  BY DEF Next, operationsVars, AdminStep, LimiterStep, TokenStep, HealthStep, SearchStep, BackupStep
<1>6. [Next]_operationsVars => [SearchNext]_searchVars
  BY DEF Next, operationsVars, AdminStep, LimiterStep, TokenStep, HealthStep, SearchStep, BackupStep
<1>7. [Next]_operationsVars => [BackupNext]_backupVars
  BY DEF Next, operationsVars, AdminStep, LimiterStep, TokenStep, HealthStep, SearchStep, BackupStep
<1> QED
  BY <1>1, <1>2, <1>3, <1>4, <1>5, <1>6, <1>7, PTL
     DEF Spec, AdminSpec, LimiterSpec, TokenSpec, HealthSpec, SearchSpec, BackupSpec

\* The state of every part stays of its type while they run side by side.
THEOREM OperationsTypeCorrect == Spec => []TypeOK
<1>1. AdminTypeOK /\ LimiterTypeOK /\ TokenTypeOK /\ HealthTypeOK /\ SearchTypeOK /\ BackupTypeOK => TypeOK
  BY DEF TypeOK
<1> QED
  BY <1>1, PartsRunTogether, AdminTypeCorrect, LimiterTypeCorrect, TokenTypeCorrect,
     HealthTypeCorrect, SearchTypeCorrect, BackupTypeCorrect, PTL

\* What must hold of the parts holds of them side by side: whoever has a session
\* was allowed it and only owners change roles, guesses stay limited, the bot
\* has a token that works, notices tell what the checks saw, no search waits on
\* itself, and no backup goes that is not superseded.
THEOREM PartsKeepTheirPromises ==
    Spec => /\ []SessionsAreEarned /\ RolesChangeByOwners
            /\ []GuessesAreLimited
            /\ []WorkingBotStartsAgain
            /\ []NoticesMatchHealth
            /\ []SearchNeverStuck /\ SearchAdvances
            /\ OnlySupersededPruned
  BY PartsRunTogether, SessionsAlwaysEarned, RolesAlwaysChangeByOwners, GuessesAlwaysLimited,
     WorkingBotAlwaysStartsAgain, NoticesAlwaysMatch, SearchNeverGetsStuck, SearchAlwaysAdvances,
     OnlySupersededEverPruned, PTL
=============================================================================
