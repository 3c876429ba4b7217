------------------------------- MODULE Backup -------------------------------
(***************************************************************************)
(* The daily backup: the process cmd/backup reads the retention, dumps the *)
(* database, writes the sealed archive beside the earlier ones and removes *)
(* those that are too old, one file after the other.  The owner changes    *)
(* the retention in the web panel at any time, also during a dump; every   *)
(* step may fail and the process may end at any time.                      *)
(***************************************************************************)
EXTENDS Naturals, Sequences

CONSTANTS RetentionDays, \* the retentions owners choose
          MaxArchives,   \* bound: archives kept at a time
          MaxAge         \* bound: the age of an archive, in days

ASSUME RetentionAssumption == RetentionDays \subseteq Nat \ {0}
ASSUME BackupBounds == {MaxArchives, MaxAge} \subseteq Nat

VARIABLES
    retention, \* backup_settings.retention_days
    archives,  \* the age of each archive, in the order of their names
    attempt,   \* the attempt in progress
    asked      \* history: the retentions in force during the attempt

backupVars == <<retention, archives, attempt, asked>>

NoAttempt == [phase |-> "wait", retention |-> 0, elapsed |-> 0]
KeepAll == 0   \* the retention could not be read

BackupTypeOK ==
    /\ retention \in RetentionDays
    /\ archives \in Seq(0 .. MaxAge)
    /\ Len(archives) <= MaxArchives
    /\ attempt \in [phase : {"wait", "dump", "prune"}, retention : RetentionDays \union {KeepAll},
                    elapsed : 0 .. MaxAge]
    /\ asked \subseteq RetentionDays

BackupInit ==
    /\ retention \in RetentionDays
    /\ archives = <<>>
    /\ attempt = NoAttempt
    /\ asked = {}

\* BackupSettingsStore.Update
ChangeRetention(days) ==
    /\ retention' = days
    /\ asked' = IF attempt = NoAttempt THEN {} ELSE asked \union {days}
    /\ UNCHANGED <<archives, attempt>>
----------------------------------------------------------------------------
\* retentionForAttempt: without a valid row nothing will be removed.
BeginAttempt(readable) ==
    /\ attempt = NoAttempt
    /\ attempt' = [phase |-> "dump", retention |-> IF readable THEN retention ELSE KeepAll, elapsed |-> 0]
    /\ asked' = {retention}
    /\ UNCHANGED <<retention, archives>>

\* Seeded error: the archives are pruned although the new one was not written.
PruneAfterFailure ==
    /\ attempt.phase = "dump"
    /\ attempt' = IF attempt.retention = KeepAll THEN NoAttempt ELSE [attempt EXCEPT !.phase = "prune"]
    /\ asked' = IF attempt.retention = KeepAll THEN {} ELSE asked
    /\ UNCHANGED <<retention, archives>>

\* pg_dump fails or exceeds its limit, or the archive cannot be written.
DumpFails ==
    /\ attempt.phase = "dump"
    /\ attempt' = NoAttempt
    /\ asked' = {}
    /\ UNCHANGED <<retention, archives>>

\* The archive is in place once it is renamed; when the directory cannot be
\* synced the attempt still fails, before it prunes.
WriteArchive(synced) ==
    LET prunes == synced /\ attempt.retention # KeepAll IN
    /\ attempt.phase = "dump"
    /\ Len(archives) < MaxArchives
    /\ archives' = Append(archives, 0)
    /\ attempt' = IF prunes THEN [attempt EXCEPT !.phase = "prune"] ELSE NoAttempt
    /\ asked' = IF prunes THEN asked ELSE {}
    /\ UNCHANGED retention

\* The cutoff counts from the time the attempt began.
Expired(age) == age > attempt.elapsed + attempt.retention

RemoveExpired ==
    /\ attempt.phase = "prune"
    /\ archives # <<>>
    /\ Expired(Head(archives))
    /\ archives' = Tail(archives)
    /\ UNCHANGED <<retention, attempt, asked>>

\* Every archive was looked at, one could not be removed, or the process ends.
AttemptEnds ==
    /\ attempt # NoAttempt
    /\ attempt' = NoAttempt
    /\ asked' = {}
    /\ UNCHANGED <<retention, archives>>

Day ==
    /\ \A i \in DOMAIN archives : archives[i] < MaxAge
    /\ attempt.elapsed < MaxAge
    /\ archives' = [i \in DOMAIN archives |-> archives[i] + 1]
    /\ attempt' = IF attempt = NoAttempt THEN NoAttempt ELSE [attempt EXCEPT !.elapsed = @ + 1]
    /\ UNCHANGED <<retention, asked>>

BackupNext ==
    \/ \E days \in RetentionDays : ChangeRetention(days)
    \/ \E readable \in BOOLEAN : BeginAttempt(readable)
    \/ DumpFails
    \/ \E synced \in BOOLEAN : WriteArchive(synced)
    \/ RemoveExpired
    \/ AttemptEnds
    \/ Day

BackupSpec == BackupInit /\ [][BackupNext]_backupVars
----------------------------------------------------------------------------
\* An archive is removed only when a younger one is in place and it is older
\* than a retention that was in force during the attempt: failing dumps and
\* failing reads never eat the archives up, however long they go on, nor does
\* a dump that takes longer than the archives last.
OnlySupersededPruned ==
    [][Len(archives') < Len(archives) =>
        /\ archives' # <<>>
        /\ archives'[Len(archives')] < Head(archives)
        /\ \E days \in asked : Head(archives) > days
      ]_backupVars
=============================================================================
