------------------------------ MODULE BotToken ------------------------------
(***************************************************************************)
(* Rotating the token of the Telegram bot while the server runs.  A        *)
(* rotation asks Telegram whose token it is, stores it sealed in           *)
(* bot_settings and only then swaps the live client; a start prefers the   *)
(* stored token to the one of the environment and stops when Telegram      *)
(* refuses it.  Telegram accepts one token of a bot, the newest.  Owners   *)
(* rotate concurrently: nothing serialises two requests.                   *)
(***************************************************************************)
EXTENDS Naturals

CONSTANTS Rotation, \* requests PUT /api/settings/bot being served
          MaxToken  \* bound: tokens issued after the first

ASSUME MaxTokenAssumption == MaxToken \in Nat

VARIABLES
    valid,      \* the token of this bot that Telegram accepts
    stored,     \* bot_settings
    live,       \* the client every component calls through the wrapper
    rotation,   \* what each request is about to do, and with which token
    overlapped  \* history: since the start, one rotation verified its token
                \* while another was carrying on with a different one

tokenVars == <<valid, stored, live, rotation, overlapped>>

Own(n) == [bot |-> "own", n |-> n]
Other == [bot |-> "other", n |-> 0]
Nothing == [bot |-> "none", n |-> 0]
Token == {Own(n) : n \in 0 .. MaxToken} \union {Other}
Bootstrap == Own(0)   \* BOT_TOKEN in the environment
Idle == [phase |-> "idle", token |-> Nothing]

TokenTypeOK ==
    /\ valid \in 0 .. MaxToken
    /\ stored \in Token \union {Nothing}
    /\ live \in Token \union {Nothing}     \* Nothing: the process is down
    /\ rotation \in [Rotation -> {Idle} \union [phase : {"verify", "save", "swap"}, token : Token]]
    /\ overlapped \in BOOLEAN

TokenInit ==
    /\ valid = 0
    /\ stored = Nothing
    /\ live = Nothing
    /\ rotation = [r \in Rotation |-> Idle]
    /\ overlapped = FALSE

\* getMe: whose token it is, when Telegram accepts it.
GetMeSucceeds(token) == token \in {Own(valid), Other}

\* BotFather issues a new token and revokes the one before.
Reissue ==
    /\ valid < MaxToken
    /\ valid' = valid + 1
    /\ UNCHANGED <<stored, live, rotation, overlapped>>
----------------------------------------------------------------------------
PutToken(r, token) ==
    /\ live # Nothing
    /\ rotation[r] = Idle
    /\ rotation' = [rotation EXCEPT ![r] = [phase |-> "verify", token |-> token]]
    /\ UNCHANGED <<valid, stored, live, overlapped>>

\* Rotate: getMe with the candidate, and the identity it must have.
Verify(r) ==
    LET token == rotation[r].token IN
    /\ rotation[r].phase = "verify"
    /\ GetMeSucceeds(token)
    /\ token.bot = live.bot
    /\ rotation' = [rotation EXCEPT ![r].phase = "save"]
    /\ overlapped' = (overlapped \/ \E q \in Rotation \ {r} :
                          rotation[q].phase \in {"save", "swap"} /\ rotation[q].token # token)
    /\ UNCHANGED <<valid, stored, live>>

\* ErrBotVerificationFailed (also when Telegram is not reached), and
\* ErrBotIdentityChanged.
Refuse(r) ==
    /\ rotation[r].phase = "verify"
    /\ rotation' = [rotation EXCEPT ![r] = Idle]
    /\ UNCHANGED <<valid, stored, live, overlapped>>

SaveToken(r) ==
    /\ rotation[r].phase = "save"
    /\ stored' = rotation[r].token
    /\ rotation' = [rotation EXCEPT ![r].phase = "swap"]
    /\ UNCHANGED <<valid, live, overlapped>>

\* Seeded error: a token that could not be stored is used all the same.
SwapUnsaved(r) ==
    /\ rotation[r].phase = "save"
    /\ live' = rotation[r].token
    /\ rotation' = [rotation EXCEPT ![r] = Idle]
    /\ UNCHANGED <<valid, stored, overlapped>>

SaveTokenFails(r) ==
    /\ rotation[r].phase = "save"
    /\ rotation' = [rotation EXCEPT ![r] = Idle]
    /\ UNCHANGED <<valid, stored, live, overlapped>>

\* The commit takes effect and its reply is lost: the rotation ends with an
\* error, the row holds the new token and the client keeps the old one.
SaveTokenReplyLost(r) ==
    /\ rotation[r].phase = "save"
    /\ stored' = rotation[r].token
    /\ rotation' = [rotation EXCEPT ![r] = Idle]
    /\ UNCHANGED <<valid, live, overlapped>>

\* SwapAwareClient.Swap, given the identity that Verify found.
Swap(r) ==
    /\ rotation[r].phase = "swap"
    /\ live' = rotation[r].token
    /\ rotation' = [rotation EXCEPT ![r] = Idle]
    /\ UNCHANGED <<valid, stored, overlapped>>
----------------------------------------------------------------------------
Stop ==
    /\ live # Nothing
    /\ live' = Nothing
    /\ rotation' = [r \in Rotation |-> Idle]
    /\ UNCHANGED <<valid, stored, overlapped>>

\* activeBotToken: the stored token if it can be read.
Preferred(readable) == IF readable /\ stored # Nothing THEN stored ELSE Bootstrap

\* A start that Telegram refuses ends the process again.
Start(readable) ==
    /\ live = Nothing
    /\ GetMeSucceeds(Preferred(readable))
    /\ live' = Preferred(readable)
    /\ overlapped' = FALSE
    /\ UNCHANGED <<valid, stored, rotation>>

TokenNext ==
    \/ Reissue
    \/ \E r \in Rotation :
        \/ \E token \in Token : PutToken(r, token)
        \/ Verify(r) \/ Refuse(r)
        \/ SaveToken(r) \/ SaveTokenFails(r) \/ SaveTokenReplyLost(r)
        \/ Swap(r)
    \/ Stop
    \/ \E readable \in BOOLEAN : Start(readable)

TokenSpec == TokenInit /\ [][TokenNext]_tokenVars
----------------------------------------------------------------------------
\* A bot that works can be started again: while the client in use holds the
\* token Telegram accepts, the token a start prefers is that one, whatever
\* save failed, reply got lost or process ended in the middle of a rotation.
\* Rotations of different tokens that overlapped are the exception: the one
\* that verified first may save last, and the revoked token it stores takes
\* precedence over the environment at every later start.  The bot itself never
\* changes.
WorkingBotStartsAgain ==
    live # Nothing =>
        /\ live.bot = "own"
        /\ live = Own(valid) /\ ~overlapped => Preferred(TRUE) = Own(valid)
=============================================================================
