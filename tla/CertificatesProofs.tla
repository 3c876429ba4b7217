-------------------------- MODULE CertificatesProofs --------------------------
(***************************************************************************)
(* Proofs about Certificates for any set of domains, any validity, any     *)
(* margin and any number of failures below it.                             *)
(***************************************************************************)
EXTENDS Certificates, TLAPS

\* What the row says never outlives the file, because the row is only written
\* while the file is fresh.
BackedInv ==
    /\ expires <= chainLeft
    /\ phase \in {"install key", "record"} => chainLeft = Validity

\* A round installs something only because the renewal was due, and the row
\* is only written for a whole pair.
PairInv ==
    /\ ~paired => Due
    /\ phase \in {"obtain", "install chain"} => Due
    /\ phase = "record" => paired

\* Settings once stored stay stored, and while all of them could be loaded
\* the last ones can.
LoadableInv ==
    /\ phase \notin {"wait", "load"} => domain # NoDomain
    /\ state = "issued" => domain # NoDomain
    /\ ~neglected => loadable \/ domain = NoDomain

\* Each tick below the margin is paid for by a failure: a round that has
\* ended without success has one tick more than the round it ended.
Rest == IF phase \in {"wait", "record failure"} THEN 1 ELSE 0
InTimeInv == (state = "issued" /\ ~neglected) => Margin + Rest <= expires + outage

IInv == TypeOK /\ BackedInv /\ PairInv /\ LoadableInv /\ InTimeInv
-----------------------------------------------------------------------------
LEMMA InitIInv == Init => IInv
<1> SUFFICES ASSUME Init PROVE IInv
  OBVIOUS
<1> USE TimesAssumption, OutageAssumption, SavesAssumption DEF Init, Null
<1>1. TypeOK
  <2>1. loadable \in BOOLEAN /\ paired \in BOOLEAN /\ neglected \in BOOLEAN
    OBVIOUS
  <2>2. 0 \in 0 .. Validity /\ 0 \in 0 .. MaxOutage /\ 0 \in 0 .. MaxSaves
    OBVIOUS
  <2>3. QED
    BY <2>1, <2>2 DEF TypeOK, Phase
<1>2. BackedInv /\ PairInv
  BY DEF BackedInv, PairInv, Due
<1>3. LoadableInv /\ InTimeInv
  BY DEF LoadableInv, InTimeInv
<1>4. QED
  BY <1>1, <1>2, <1>3 DEF IInv

LEMMA StepIInv == IInv /\ [Next]_vars => IInv'
<1> SUFFICES ASSUME IInv, [Next]_vars PROVE IInv'
  OBVIOUS
<1>a. Validity \in Nat /\ Margin \in Nat /\ MaxOutage \in Nat
  BY TimesAssumption, OutageAssumption
<1>b. outage \in Nat /\ expires \in Int /\ expires <= Validity
  BY <1>a DEF IInv, TypeOK, Null
<1> USE TimesAssumption, OutageAssumption, SavesAssumption, DomainAssumption DEF IInv, Null
<1>1. ASSUME NEW d \in Domain, NEW accepted \in BOOLEAN, Save(d, accepted) PROVE IInv'
  <2>1. TypeOK'
    <3>1. loadable' \in BOOLEAN /\ neglected' \in BOOLEAN
      BY <1>1 DEF Save, TypeOK
    <3>2. saves' \in 0 .. MaxSaves
      BY <1>1 DEF Save, TypeOK
    <3>3. QED
      BY <1>1, <3>1, <3>2 DEF Save, TypeOK, Phase, files, recorded
  <2>2. BackedInv'
    BY <1>1 DEF Save, BackedInv, TypeOK, settings, files, recorded
  <2>3. PairInv'
    BY <1>1 DEF Save, PairInv, TypeOK, Due, settings, files, recorded
  <2>4. LoadableInv'
    BY <1>1 DEF Save, LoadableInv, TypeOK, settings, files, recorded
  <2>5. InTimeInv'
    BY <1>1 DEF Save, InTimeInv, Rest, BackedInv, LoadableInv, TypeOK, settings, files, recorded
  <2>6. QED
    BY <2>1, <2>2, <2>3, <2>4, <2>5
<1>2. CASE Tick
  <2>1. TypeOK'
    BY <1>2 DEF Tick, Elapse, TypeOK, Phase, settings, files, recorded
  <2>2. BackedInv'
    BY <1>2 DEF Tick, Elapse, BackedInv, TypeOK, settings, files, recorded
  <2>3. PairInv'
    BY <1>2 DEF Tick, Elapse, PairInv, TypeOK, Due, settings, files, recorded
  <2>4. LoadableInv'
    BY <1>2 DEF Tick, Elapse, LoadableInv, TypeOK, settings, files, recorded
  <2>5. InTimeInv'
    BY <1>2 DEF Tick, Elapse, InTimeInv, Rest, BackedInv, LoadableInv, TypeOK, settings, files, recorded
  <2>6. QED
    BY <2>1, <2>2, <2>3, <2>4, <2>5
<1>3. CASE Load
  <2>1. TypeOK'
    BY <1>3 DEF Load, Due, TypeOK, Phase, settings, files, recorded
  <2>2. BackedInv'
    BY <1>3 DEF Load, Due, BackedInv, TypeOK, settings, files, recorded
  <2>3. PairInv'
    BY <1>3 DEF Load, Due, PairInv, TypeOK, Due, settings, files, recorded
  <2>4. LoadableInv'
    BY <1>3 DEF Load, Due, LoadableInv, TypeOK, settings, files, recorded
  <2>5. InTimeInv'
    <3> SUFFICES ASSUME (state = "issued" /\ ~neglected)' PROVE (Margin + Rest <= expires + outage)'
      BY DEF InTimeInv
    <3>1. expires \in Int /\ outage \in Nat /\ expires' = expires /\ outage' = outage
      BY <1>3 DEF Load, TypeOK, recorded
    <3>2. Margin <= expires + outage /\ (state = "issued" => domain # NoDomain) /\ loadable
      BY <1>3 DEF Load, InTimeInv, LoadableInv, Rest, recorded, TypeOK
    <3>3. CASE Due
      <4>1. phase' = "obtain"
        BY <1>3, <3>2, <3>3 DEF Load, recorded
      <4>2. QED
        BY <3>1, <3>2, <4>1 DEF Rest
    <3>4. CASE ~Due
      <4>1. phase' = "wait"
        BY <1>3, <3>4 DEF Load
      <4>2. Margin < expires
        BY <3>1, <3>4 DEF Due
      <4>3. QED
        BY <3>1, <4>1, <4>2 DEF Rest
    <3>5. QED
      BY <3>3, <3>4
  <2>6. QED
    BY <2>1, <2>2, <2>3, <2>4, <2>5
<1>4. CASE LoadFails
  <2>1. TypeOK'
    BY <1>4 DEF LoadFails, Outage, TypeOK, Phase, settings, files, recorded
  <2>2. BackedInv'
    BY <1>4 DEF LoadFails, Outage, BackedInv, TypeOK, settings, files, recorded
  <2>3. PairInv'
    BY <1>4 DEF LoadFails, Outage, PairInv, TypeOK, Due, settings, files, recorded
  <2>4. LoadableInv'
    BY <1>4 DEF LoadFails, Outage, LoadableInv, TypeOK, settings, files, recorded
  <2>5. InTimeInv'
    BY <1>4 DEF LoadFails, Outage, InTimeInv, Rest, BackedInv, LoadableInv, TypeOK, settings, files, recorded
  <2>6. QED
    BY <2>1, <2>2, <2>3, <2>4, <2>5
<1>5. CASE ObtainSucceeds
  <2>1. TypeOK'
    BY <1>5 DEF ObtainSucceeds, TypeOK, Phase, settings, files, recorded
  <2>2. BackedInv'
    BY <1>5 DEF ObtainSucceeds, BackedInv, TypeOK, settings, files, recorded
  <2>3. PairInv'
    BY <1>5 DEF ObtainSucceeds, PairInv, TypeOK, Due, settings, files, recorded
  <2>4. LoadableInv'
    BY <1>5 DEF ObtainSucceeds, LoadableInv, TypeOK, settings, files, recorded
  <2>5. InTimeInv'
    BY <1>5 DEF ObtainSucceeds, InTimeInv, Rest, BackedInv, LoadableInv, TypeOK, settings, files, recorded
  <2>6. QED
    BY <2>1, <2>2, <2>3, <2>4, <2>5
<1>6. CASE ObtainFails
  <2>1. TypeOK'
    <3>1. outage' \in 0 .. MaxOutage
      <4>1. outage < MaxOutage /\ outage' = outage + 1
        BY <1>6 DEF ObtainFails, Outage
      <4>2. QED
        BY <4>1, <1>a, <1>b
    <3>2. phase' \in Phase /\ (phase' \notin {"wait", "load"} => wanted' \in Domain)
      BY <1>6 DEF ObtainFails, TypeOK, Phase
    <3>3. QED
      BY <1>6, <3>1, <3>2 DEF ObtainFails, TypeOK, settings, files, recorded
  <2>2. BackedInv'
    BY <1>6 DEF ObtainFails, Outage, BackedInv, TypeOK, settings, files, recorded
  <2>3. PairInv'
    BY <1>6 DEF ObtainFails, Outage, PairInv, TypeOK, Due, settings, files, recorded
  <2>4. LoadableInv'
    BY <1>6 DEF ObtainFails, Outage, LoadableInv, TypeOK, settings, files, recorded
  <2>5. InTimeInv'
    <3>1. outage \in Nat /\ outage' = outage + 1 /\ expires \in Int /\ expires' = expires
      BY <1>6, <1>b DEF ObtainFails, Outage, recorded
    <3>2. Rest = 0 /\ Rest' = 1
      BY <1>6 DEF ObtainFails, Rest
    <3>3. (state = "issued" /\ ~neglected)' => state = "issued" /\ ~neglected
      BY <1>6 DEF ObtainFails, recorded
    <3>4. Margin + Rest <= expires + outage => Margin + Rest' <= expires' + outage'
      BY <3>1, <3>2, <1>a
    <3>5. QED
      BY <3>3, <3>4 DEF InTimeInv
  <2>6. QED
    BY <2>1, <2>2, <2>3, <2>4, <2>5
<1>7. CASE InstallChain
  <2>1. TypeOK'
    <3>1. paired' \in BOOLEAN /\ loadable' \in BOOLEAN /\ neglected' \in BOOLEAN
      BY <1>7 DEF InstallChain, TypeOK, settings
    <3>2. chainLeft' \in 0 .. Validity
      <4>1. chainLeft' = Validity
        BY <1>7 DEF InstallChain
      <4>2. QED
        BY <4>1, <1>a
    <3>3. QED
      BY <1>7, <3>1, <3>2 DEF InstallChain, TypeOK, Phase, settings, recorded
  <2>2. BackedInv'
    <3>1. chainLeft' = Validity /\ expires' = expires
      BY <1>7 DEF InstallChain, recorded
    <3>2. QED
      BY <3>1, <1>b DEF BackedInv
  <2>3. PairInv'
    BY <1>7 DEF InstallChain, PairInv, TypeOK, Due, settings, files, recorded
  <2>4. LoadableInv'
    BY <1>7 DEF InstallChain, LoadableInv, TypeOK, settings, files, recorded
  <2>5. InTimeInv'
    BY <1>7 DEF InstallChain, InTimeInv, Rest, BackedInv, LoadableInv, TypeOK, settings, files, recorded
  <2>6. QED
    BY <2>1, <2>2, <2>3, <2>4, <2>5
<1>8. CASE InstallKey
  <2>1. TypeOK'
    BY <1>8 DEF InstallKey, TypeOK, Phase, settings, files, recorded
  <2>2. BackedInv'
    BY <1>8 DEF InstallKey, BackedInv, TypeOK, settings, files, recorded
  <2>3. PairInv'
    BY <1>8 DEF InstallKey, PairInv, TypeOK, Due, settings, files, recorded
  <2>4. LoadableInv'
    BY <1>8 DEF InstallKey, LoadableInv, TypeOK, settings, files, recorded
  <2>5. InTimeInv'
    BY <1>8 DEF InstallKey, InTimeInv, Rest, BackedInv, LoadableInv, TypeOK, settings, files, recorded
  <2>6. QED
    BY <2>1, <2>2, <2>3, <2>4, <2>5
<1>9. CASE RecordSucceeds
  <2>1. TypeOK'
    BY <1>9 DEF RecordSucceeds, RecordIssuance, TypeOK, Phase, settings, files, recorded
  <2>2. BackedInv'
    BY <1>9 DEF RecordSucceeds, RecordIssuance, BackedInv, TypeOK, settings, files, recorded
  <2>3. PairInv'
    BY <1>9 DEF RecordSucceeds, RecordIssuance, PairInv, TypeOK, Due, settings, files, recorded
  <2>4. LoadableInv'
    BY <1>9 DEF RecordSucceeds, RecordIssuance, LoadableInv, TypeOK, settings, files, recorded
  <2>5. InTimeInv'
    BY <1>9 DEF RecordSucceeds, RecordIssuance, InTimeInv, Rest, BackedInv, LoadableInv, TypeOK, settings, files, recorded
  <2>6. QED
    BY <2>1, <2>2, <2>3, <2>4, <2>5
<1>10. CASE RecordFails
  <2>1. TypeOK'
    BY <1>10 DEF RecordFails, RecordIssuance, Outage, TypeOK, Phase, settings, files, recorded
  <2>2. BackedInv'
    BY <1>10 DEF RecordFails, RecordIssuance, Outage, BackedInv, TypeOK, settings, files, recorded
  <2>3. PairInv'
    BY <1>10 DEF RecordFails, RecordIssuance, Outage, PairInv, TypeOK, Due, settings, files, recorded
  <2>4. LoadableInv'
    BY <1>10 DEF RecordFails, RecordIssuance, Outage, LoadableInv, TypeOK, settings, files, recorded
  <2>5. InTimeInv'
    BY <1>10 DEF RecordFails, RecordIssuance, Outage, InTimeInv, Rest, BackedInv, LoadableInv, TypeOK, settings, files, recorded
  <2>6. QED
    BY <2>1, <2>2, <2>3, <2>4, <2>5
<1>11. CASE RecordFailure
  <2>1. TypeOK'
    BY <1>11 DEF RecordFailure, FailureState, TypeOK, Phase, settings, files, recorded
  <2>2. BackedInv'
    BY <1>11 DEF RecordFailure, FailureState, BackedInv, TypeOK, settings, files, recorded
  <2>3. PairInv'
    BY <1>11 DEF RecordFailure, FailureState, PairInv, TypeOK, Due, settings, files, recorded
  <2>4. LoadableInv'
    BY <1>11 DEF RecordFailure, FailureState, LoadableInv, TypeOK, settings, files, recorded
  <2>5. InTimeInv'
    BY <1>11 DEF RecordFailure, FailureState, InTimeInv, Rest, BackedInv, LoadableInv, TypeOK, settings, files, recorded
  <2>6. QED
    BY <2>1, <2>2, <2>3, <2>4, <2>5
<1>12. CASE Restart
  <2>1. TypeOK'
    <3>1. outage' \in 0 .. MaxOutage
      <4>1. outage < MaxOutage /\ outage' = outage + 1
        BY <1>12 DEF Restart, Outage
      <4>2. QED
        BY <4>1, <1>a, <1>b
    <3>2. phase' \in Phase /\ (phase' \notin {"wait", "load"} => wanted' \in Domain)
      BY <1>12 DEF Restart, TypeOK, Phase
    <3>3. QED
      BY <1>12, <3>1, <3>2 DEF Restart, TypeOK, settings, files, recorded
  <2>2. BackedInv'
    BY <1>12 DEF Restart, Outage, BackedInv, TypeOK, settings, files, recorded
  <2>3. PairInv'
    BY <1>12 DEF Restart, Outage, PairInv, TypeOK, Due, settings, files, recorded
  <2>4. LoadableInv'
    BY <1>12 DEF Restart, Outage, LoadableInv, TypeOK, settings, files, recorded
  <2>5. InTimeInv'
    <3>1. outage \in Nat /\ outage' = outage + 1 /\ expires \in Int /\ expires' = expires
      BY <1>12, <1>b DEF Restart, Outage, recorded
    <3>2. Rest \in {0, 1} /\ Rest' = 0
      BY <1>12 DEF Restart, Rest
    <3>3. (state = "issued" /\ ~neglected)' => state = "issued" /\ ~neglected
      BY <1>12 DEF Restart, recorded
    <3>4. Margin + Rest <= expires + outage => Margin + Rest' <= expires' + outage'
      BY <3>1, <3>2, <1>a
    <3>5. QED
      BY <3>3, <3>4 DEF InTimeInv
  <2>6. QED
    BY <2>1, <2>2, <2>3, <2>4, <2>5
<1>13. CASE UNCHANGED vars
  BY <1>13 DEF vars, settings, files, recorded, TypeOK, Phase,
     BackedInv, PairInv, Due, LoadableInv, InTimeInv, Rest
<1>14. QED
  BY <1>1, <1>2, <1>3, <1>4, <1>5, <1>6, <1>7, <1>8, <1>9, <1>10, <1>11, <1>12, <1>13 DEF Next, Round

LEMMA AlwaysIInv == Spec => []IInv
<1>1. Init => IInv
  BY InitIInv
<1>2. IInv /\ [Next]_vars => IInv'
  BY StepIInv
<1>3. QED
  BY <1>1, <1>2, PTL DEF Spec
-----------------------------------------------------------------------------
\* The type invariant: in particular the constraint of tls_settings that an
\* issued certificate has an expiry is never violated.
THEOREM TypeCorrect == Spec => []TypeOK
<1>1. IInv => TypeOK
  BY DEF IInv
<1>2. QED
  BY <1>1, AlwaysIInv, PTL

\* The gate of the subscriptions is never open longer than the certificate in
\* the file lasts (TLSSettingsStore.Issued, FileInstaller.Install).
THEOREM ExpiryAlwaysBacked == Spec => []ExpiryIsBacked
<1>1. IInv => ExpiryIsBacked
  BY DEF IInv, BackedInv, ExpiryIsBacked
<1>2. QED
  BY <1>1, AlwaysIInv, PTL

\* A half-installed pair of files is always due for replacement
\* (FileInstaller.Install, Coordinator.Ensure).
THEOREM TornPairAlwaysDue == Spec => []TornPairIsDue
<1>1. IInv => TornPairIsDue
  BY DEF IInv, PairInv, TornPairIsDue
<1>2. QED
  BY <1>1, AlwaysIInv, PTL

\* However long a certificate lives: with fewer failures in a row than the
\* margin has rounds it never expires (Coordinator.Ensure).
THEOREM AlwaysRenewedInTime == Spec => []RenewedInTime
<1>1. IInv => RenewedInTime
  <2> SUFFICES ASSUME IInv, state = "issued", ~neglected
               PROVE  expires > 0 /\ chainLeft > 0
    BY DEF RenewedInTime
  <2> USE OutageAssumption, TimesAssumption
  <2>1. Margin + Rest <= expires + outage /\ expires <= chainLeft
    BY DEF IInv, InTimeInv, BackedInv
  <2>2. outage < Margin /\ outage \in Nat /\ Rest \in Nat
    BY DEF IInv, TypeOK, Rest
  <2>3. expires \in Int /\ chainLeft \in Int
    BY DEF IInv, TypeOK, Null
  <2>4. QED
    BY <2>1, <2>2, <2>3
<1>2. QED
  BY <1>1, AlwaysIInv, PTL
=============================================================================
