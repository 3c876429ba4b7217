----------------------------- MODULE Certificates -----------------------------
(***************************************************************************)
(* The certificate of the TLS protocols: tlsrunner.Coordinator obtains and *)
(* renews it, acme.FileInstaller writes chain and key as two files, and    *)
(* TLSSettingsStore keeps the settings and what is known of the outcome.   *)
(*                                                                         *)
(* A tick is one round of Coordinator.Run; the calls of a round take no    *)
(* time compared with the validity of a certificate.  Owners save settings *)
(* at any moment, also during a round.                                     *)
(***************************************************************************)
EXTENDS Integers

CONSTANTS Domain,    \* the domains owners configure
          NoDomain,  \* tls_settings is not configured, or no file
          Validity,  \* of a certificate, in ticks
          Margin,    \* renewalMargin, in ticks
          MaxOutage, \* bound: failures in a row between two successes
          MaxSaves   \* bound: saved settings

ASSUME DomainAssumption == NoDomain \notin Domain
ASSUME TimesAssumption == {Validity, Margin} \subseteq Nat /\ 0 < Margin /\ Margin < Validity
ASSUME OutageAssumption == MaxOutage \in Nat /\ MaxOutage < Margin
ASSUME SavesAssumption == MaxSaves \in Nat

VARIABLES
    domain,    \* tls_settings.domain
    loadable,  \* LoadForIssuance accepts the settings
    state,     \* tls_settings.state
    expires,   \* ticks until certificate_expires_at, or Null
    chain,     \* the domain the certificate file is for
    chainLeft, \* ticks until the certificate in it expires
    paired,    \* the key file belongs to the certificate file
    phase,     \* the step Coordinator.Run is at
    wanted,    \* the domain this round obtains a certificate for
    outage,    \* failures since the last success
    saves,     \* settings saved so far
    neglected  \* history: the settings were not loadable since the last success

settings == <<domain, loadable, saves>>
files == <<chain, chainLeft, paired>>
recorded == <<state, expires>>
vars == <<settings, files, recorded, phase, wanted, outage, neglected>>

Null == -1
Phase == {"wait", "load", "obtain", "install chain", "install key", "record", "record failure"}

TypeOK ==
    /\ domain \in Domain \union {NoDomain}
    /\ loadable \in BOOLEAN
    /\ state \in {"unissued", "issued", "failed"}
    /\ expires \in {Null} \union 0 .. Validity
    /\ state = "issued" => expires # Null
    /\ chain \in Domain \union {NoDomain}
    /\ chainLeft \in 0 .. Validity
    /\ paired \in BOOLEAN
    /\ phase \in Phase
    /\ wanted \in Domain \union {NoDomain}
    /\ phase \notin {"wait", "load"} => wanted \in Domain
    /\ outage \in 0 .. MaxOutage
    /\ saves \in 0 .. MaxSaves
    /\ neglected \in BOOLEAN

Init ==
    /\ domain = NoDomain
    /\ loadable = FALSE
    /\ state = "unissued"
    /\ expires = Null
    /\ chain = NoDomain
    /\ chainLeft = 0
    /\ paired = FALSE
    /\ phase = "load"
    /\ wanted = NoDomain
    /\ outage = 0
    /\ saves = 0
    /\ neglected = FALSE
-----------------------------------------------------------------------------
\* Seeded error: saving restarts the issuance but not the state.
SaveAndForgetExpiry(d, accepted) ==
    /\ saves < MaxSaves
    /\ saves' = saves + 1
    /\ domain' = d
    /\ loadable' = accepted
    /\ neglected' = (neglected \/ ~accepted)
    /\ expires' = Null
    /\ UNCHANGED <<state, files, phase, wanted, outage>>

\* TLSSettingsStore.Save; settings of mode custom with a dns_01 challenge pass
\* its validation and are refused by that of LoadForIssuance.
Save(d, accepted) ==
    /\ saves < MaxSaves
    /\ saves' = saves + 1
    /\ domain' = d
    /\ loadable' = accepted
    /\ neglected' = (neglected \/ ~accepted)
    /\ UNCHANGED <<recorded, files, phase, wanted, outage>>

Elapse(ticks) == IF ticks > 0 THEN ticks - 1 ELSE ticks

\* Run has waited for checkInterval.
Tick ==
    /\ phase = "wait"
    /\ phase' = "load"
    /\ expires' = Elapse(expires)
    /\ chainLeft' = Elapse(chainLeft)
    /\ UNCHANGED <<settings, state, chain, paired, wanted, outage, neglected>>

\* Seeded error: the renewal starts when the margin is over.
DueAfterExpiry == expires = Null \/ expires = 0

\* Ensure: there is no certificate, or it expires within the margin.
Due == expires = Null \/ expires <= Margin

Outage == outage < MaxOutage /\ outage' = outage + 1

\* The settings cannot be read.
LoadFails ==
    /\ phase = "load"
    /\ Outage
    /\ phase' = "wait"
    /\ UNCHANGED <<settings, files, recorded, wanted, neglected>>

\* Seeded error: the settings of the first round are kept.
LoadOnce ==
    /\ phase = "load"
    /\ IF domain # NoDomain /\ loadable /\ Due
         THEN phase' = "obtain" /\ wanted' = IF wanted = NoDomain THEN domain ELSE wanted
         ELSE phase' = "wait" /\ UNCHANGED wanted
    /\ UNCHANGED <<settings, files, recorded, outage, neglected>>

\* LoadForIssuance and the decision of Ensure.
Load ==
    /\ phase = "load"
    /\ IF domain # NoDomain /\ loadable /\ Due
         THEN phase' = "obtain" /\ wanted' = domain
         ELSE phase' = "wait" /\ UNCHANGED wanted
    /\ UNCHANGED <<settings, files, recorded, outage, neglected>>

\* Seeded error: the issuance is recorded before the files are installed.
ObtainAndRecord ==
    /\ phase = "obtain"
    /\ phase' = "install chain"
    /\ state' = "issued"
    /\ expires' = Validity
    /\ UNCHANGED <<settings, files, wanted, outage, neglected>>

\* One of the authorities issues a certificate for the domain.
ObtainSucceeds ==
    /\ phase = "obtain"
    /\ phase' = "install chain"
    /\ UNCHANGED <<settings, files, recorded, wanted, outage, neglected>>

\* All authorities fail, or a file cannot be written.
ObtainFails ==
    /\ phase \in {"obtain", "install chain", "install key"}
    /\ Outage
    /\ phase' = "record failure"
    /\ UNCHANGED <<settings, files, recorded, wanted, neglected>>

\* Seeded error: the issuance is recorded once the chain is installed.
InstallChainAndRecord ==
    /\ phase = "install chain"
    /\ chain' = wanted
    /\ chainLeft' = Validity
    /\ paired' = FALSE
    /\ state' = "issued"
    /\ expires' = Validity
    /\ phase' = "install key"
    /\ UNCHANGED <<settings, wanted, outage, neglected>>

InstallChain ==
    /\ phase = "install chain"
    /\ chain' = wanted
    /\ chainLeft' = Validity
    /\ paired' = FALSE
    /\ phase' = "install key"
    /\ UNCHANGED <<settings, recorded, wanted, outage, neglected>>

InstallKey ==
    /\ phase = "install key"
    /\ paired' = TRUE
    /\ phase' = "record"
    /\ UNCHANGED <<settings, chain, chainLeft, recorded, wanted, outage, neglected>>

\* RecordIssuance, which also queues a reconcile of every active user.
RecordIssuance ==
    /\ state' = "issued"
    /\ expires' = Validity

RecordSucceeds ==
    /\ phase = "record"
    /\ RecordIssuance
    /\ outage' = 0
    /\ neglected' = ~loadable
    /\ phase' = "wait"
    /\ UNCHANGED <<settings, files, wanted>>

\* The transaction reports an error, with or without having committed.
RecordFails ==
    /\ phase = "record"
    /\ Outage
    /\ RecordIssuance \/ UNCHANGED recorded
    /\ phase' = "wait"
    /\ UNCHANGED <<settings, files, wanted, neglected>>

\* What RecordFailure makes of the state.
FailureState == IF state = "issued" /\ expires > 0 THEN "issued" ELSE "failed"

\* RecordFailure, whose own error is only reported.
RecordFailure ==
    /\ phase = "record failure"
    /\ state' \in {state, FailureState}
    /\ phase' = "wait"
    /\ UNCHANGED <<settings, files, expires, wanted, outage, neglected>>

\* The process restarts, and with it Run.
Restart ==
    /\ phase # "load"
    /\ Outage
    /\ phase' = "load"
    /\ UNCHANGED <<settings, files, recorded, wanted, neglected>>

Round ==
    \/ Tick \/ Load \/ LoadFails
    \/ ObtainSucceeds \/ ObtainFails
    \/ InstallChain \/ InstallKey
    \/ RecordSucceeds \/ RecordFails \/ RecordFailure

Next ==
    \/ \E d \in Domain, accepted \in BOOLEAN : Save(d, accepted)
    \/ Round
    \/ Restart

\* Rounds go on; failures in a row are bounded by MaxOutage.
Spec == Init /\ [][Next]_vars /\ WF_vars(Round)
-----------------------------------------------------------------------------
(***************************************************************************)
(* Properties.                                                             *)
(***************************************************************************)

\* TLSSettingsStore.Issued: subscriptions are handed out and users configured.
Issued == state = "issued" /\ expires > 0

\* A certificate once issued is renewed before it expires, through failing
\* authorities, half-written files, failed transactions and restarts, as long
\* as fewer rounds in a row fail than the margin has and no owner stores
\* settings that cannot be loaded (question.md:111).
RenewedInTime ==
    (state = "issued" /\ ~neglected) => expires > 0 /\ chainLeft > 0

\* The database never promises more than the file holds: what Issued opens
\* the gate for is a certificate that is still valid.
ExpiryIsBacked == Issued => expires <= chainLeft

\* A key that does not belong to the chain, left by an installation that
\* failed or was cut off between the two files, is never taken for the end
\* of the matter: the next round that can be loaded replaces both.
TornPairIsDue == (~paired /\ phase \in {"wait", "load"}) => Due

\* When owners stop changing the settings, the certificate comes to be for
\* the configured domain, at the latest by the next renewal, and whatever
\* breaks the pair of files it is whole again.
DomainConverges ==
    /\ <>[](loadable => chain = domain)
    /\ []<>(loadable => paired)

\* Subscriptions and the core get nodes only with a certificate for the
\* configured name (question.md:108, question.md:114).
IssuedMatchesDomain == Issued => chain = domain
=============================================================================
