------------------------------- MODULE Backups -------------------------------
(* The independent backups of the database (scripts/backup-postgres.sh,    *)
(* verify-postgres-backup.sh and offsite-backup.sh).  A bundle is a dump   *)
(* with its checksum and the row counts of the same snapshot, the dump     *)
(* renamed last.  The off-host job copies bundles and the backups of       *)
(* Coolify, compares them, and expires the old ones.  Runs overlap each    *)
(* other and the writes of the application; any command may fail, any run  *)
(* may get a signal, which its trap answers, or be killed, which it does   *)
(* not.                                                                    *)
EXTENDS Integers, FiniteSets, Sequences

CONSTANTS
    Dumps,       \* runs of backup-postgres.sh, each with a file name of its own
    Copies,      \* the backups of Coolify, external
    Verifiers,   \* runs of verify-postgres-backup.sh
    MinAge, MaxAge, Retention,   \* MIN_ and MAX_SOURCE_AGE_MINUTES, RETENTION_DAYS
    MaxContent, MaxHour          \* bounds on the writes and on time

VARIABLES
    content,     \* what is in the database, counted up by every write
    hour,        \* the time files are dated with
    backup,      \* each run of backup-postgres.sh, and what is in its files
    local,       \* the files of each backup in BACKUP_DIR, which is SOURCE_DIR
    remote,      \* those in the encrypted remote
    shipping,    \* the run of offsite-backup.sh
    verifier,    \* each run of verify-postgres-backup.sh
    restored     \* what is in the disposable database of each

backupVars == <<content, hour, backup, local, remote, shipping, verifier, restored>>

Nil == -1
Ids == Dumps \cup Copies
PublishOrder == <<"metadata", "checksum", "dump">>
Bundle == {"metadata", "checksum", "dump"}
NotShipping == [stage |-> "idle", at |-> Nil, step |-> 1, told |-> "nothing"]

Init ==
    /\ content = 0 /\ hour = 0
    /\ backup = [b \in Ids |-> [stage |-> "none", snapshot |-> Nil, dump |-> Nil,
                                metadata |-> Nil, born |-> Nil, step |-> 1, complete |-> FALSE]]
    /\ local = [b \in Ids |-> {}] /\ remote = [b \in Ids |-> {}]
    /\ shipping = NotShipping
    /\ verifier = [v \in Verifiers |-> [stage |-> "none", of |-> Nil, keep |-> FALSE,
                                        created |-> FALSE, told |-> "nothing"]]
    /\ restored = [v \in Verifiers |-> Nil]

Age(b) == hour - backup[b].born

(* backup-postgres.sh.  "work" is the dump in the work directory inside    *)
(* BACKUP_DIR.                                                             *)
restOfBackups == <<content, hour, remote, shipping, verifier, restored>>

\* A transaction is held open, and the dump and the counts import its snapshot.
ExportSnapshot(b) ==
    /\ backup[b].stage = "none"
    /\ backup' = [backup EXCEPT ![b].stage = "dump", ![b].snapshot = content, ![b].born = hour]
    /\ local' = [local EXCEPT ![b] = {"work"}]
    /\ UNCHANGED restOfBackups

DumpDatabase(b) ==
    /\ backup[b].stage = "dump"
    /\ backup' = [backup EXCEPT ![b].stage = "count", ![b].dump = backup[b].snapshot,
                                ![b].born = hour]
    /\ UNCHANGED <<local, restOfBackups>>

\* Mutant: the counts are those of the database by then.
CountedLater(b) == content

Counted(b) == backup[b].snapshot

CountRows(b) ==
    /\ backup[b].stage = "count"
    /\ backup' = [backup EXCEPT ![b].stage = "publish", ![b].metadata = Counted(b)]
    /\ UNCHANGED <<local, restOfBackups>>

Publish(b) ==
    LET file == PublishOrder[backup[b].step]
    IN  /\ backup[b].stage = "publish"
        /\ backup[b].step \in DOMAIN PublishOrder
        /\ local' = [local EXCEPT ![b] = (@ \cup {file}) \ (IF file = "dump" THEN {"work"} ELSE {})]
        /\ backup' = [backup EXCEPT ![b].step = @ + 1]
        /\ UNCHANGED restOfBackups

CompleteBackup(b) ==
    /\ backup[b].stage = "publish" /\ backup[b].step \notin DOMAIN PublishOrder
    /\ backup' = [backup EXCEPT ![b].stage = "cleanup", ![b].complete = TRUE]
    /\ UNCHANGED <<local, restOfBackups>>

\* A command fails, or there is a signal.
StopBackup(b) ==
    /\ backup[b].stage \in {"dump", "count", "publish"}
    /\ backup' = [backup EXCEPT ![b].stage = "cleanup"]
    /\ UNCHANGED <<local, restOfBackups>>

\* Mutant: the sidecars go first.
SidecarsFirst(b) ==
    IF backup[b].complete THEN <<"work">> ELSE <<"work", "metadata", "checksum", "dump">>

RemovalOrder(b) ==
    IF backup[b].complete THEN <<"work">> ELSE <<"work", "dump", "metadata", "checksum">>

\* What is left of it goes in this order.
Left(b) == {i \in DOMAIN RemovalOrder(b) : RemovalOrder(b)[i] \in local[b]}

CleanUpIncomplete(b) ==
    /\ backup[b].stage = "cleanup"
    /\ \/ /\ Left(b) = {}
          /\ backup' = [backup EXCEPT ![b].stage = "over"] /\ UNCHANGED local
       \/ \E i \in Left(b) :
             /\ \A j \in Left(b) : i <= j
             /\ local' = [local EXCEPT ![b] = @ \ {RemovalOrder(b)[i]}] /\ UNCHANGED backup
    /\ UNCHANGED restOfBackups

KillBackup(b) ==
    /\ backup[b].stage \notin {"none", "over"}
    /\ backup' = [backup EXCEPT ![b].stage = "over"]
    /\ UNCHANGED <<local, restOfBackups>>

(* Coolify leaves a dump of its own in SOURCE_DIR, and files are removed   *)
(* from it when they are older than what the off-host job calls recent.    *)
CoolifyBackup(c) ==
    /\ backup[c].stage = "none"
    /\ backup' = [backup EXCEPT ![c].stage = "over", ![c].born = hour]
    /\ local' = [local EXCEPT ![c] = {"dmp"}]
    /\ UNCHANGED restOfBackups

Prune(b) ==
    /\ backup[b].stage = "over" /\ local[b] # {} /\ Age(b) >= MaxAge
    /\ local' = [local EXCEPT ![b] = {}]
    /\ UNCHANGED <<backup, restOfBackups>>

(* offsite-backup.sh, with the defaults of its settings.                   *)
restOfShipping == <<content, hour, backup, local, verifier, restored>>

Stopped(told) == shipping' = [NotShipping EXCEPT !.told = told]
Ships(stage) == shipping' = [shipping EXCEPT !.stage = stage]

StartShipping ==
    /\ shipping.stage = "idle"
    /\ shipping' = [NotShipping EXCEPT !.stage = "bundles"]
    /\ UNCHANGED <<remote, restOfShipping>>

\* Any dump without both sidecars, also one in a work directory, and the reverse.
InvalidBundle(b) == "work" \in local[b] \/ local[b] \cap Bundle \notin {{}, Bundle}

CheckBundles ==
    /\ shipping.stage = "bundles"
    /\ IF \E b \in Ids : InvalidBundle(b) THEN Stopped("failed") ELSE Ships("recent")
    /\ UNCHANGED <<remote, restOfShipping>>

\* Mutant: any backup will do.
AnyBackup == \E b \in Ids : local[b] # {}

Recent == \E b \in Ids : /\ "dmp" \in local[b] \/ Bundle \subseteq local[b]
                         /\ Age(b) >= MinAge /\ Age(b) < MaxAge

CheckRecent ==
    /\ shipping.stage = "recent"
    /\ IF Recent THEN Ships("copy") ELSE Stopped("failed")
    /\ UNCHANGED <<remote, restOfShipping>>

ToCopy(b) == {f \in local[b] : f = "dmp" => Age(b) >= MinAge}

CopyFile(b, f) ==
    /\ shipping.stage = "copy"
    /\ f \in ToCopy(b) \ remote[b]
    /\ remote' = [remote EXCEPT ![b] = @ \cup {f}]
    /\ UNCHANGED <<shipping, restOfShipping>>

CryptCheck ==
    /\ shipping.stage = "copy"
    /\ IF \A b \in Ids : ToCopy(b) \subseteq remote[b] THEN Ships("expire") ELSE Stopped("failed")
    /\ UNCHANGED <<remote, restOfShipping>>

Expired(b) == backup[b].stage # "none" /\ Age(b) >= Retention

ExpireCopy(b) ==
    /\ shipping.stage = "expire" /\ shipping.at = Nil
    /\ "dmp" \in remote[b] /\ Expired(b)
    /\ remote' = [remote EXCEPT ![b] = @ \ {"dmp"}]
    /\ UNCHANGED <<shipping, restOfShipping>>

\* The loop over the old dumps comes after the copies of Coolify.
ExpireBundle(b) ==
    /\ shipping.stage = "expire" /\ shipping.at = Nil
    /\ "dump" \in remote[b] /\ Expired(b)
    /\ ~ \E c \in Ids : "dmp" \in remote[c] /\ Expired(c)
    /\ shipping' = [shipping EXCEPT !.at = b, !.step = 1]
    /\ UNCHANGED <<remote, restOfShipping>>

\* rclone fails on a file that is not there.
DeleteFile ==
    LET b == shipping.at
        file == PublishOrder[shipping.step]
    IN  /\ shipping.stage = "expire" /\ b # Nil
        /\ IF file \in remote[b]
           THEN /\ remote' = [remote EXCEPT ![b] = @ \ {file}]
                /\ shipping' = IF file = "dump" THEN [shipping EXCEPT !.at = Nil, !.step = 1]
                               ELSE [shipping EXCEPT !.step = @ + 1]
           ELSE UNCHANGED remote /\ Stopped("failed")
        /\ UNCHANGED restOfShipping

EndShipping ==
    /\ shipping.stage = "expire" /\ shipping.at = Nil
    /\ ~ \E b \in Ids : remote[b] \cap {"dmp", "dump"} # {} /\ Expired(b)
    /\ Stopped(IF \E b \in Ids : remote[b] \cap {"dmp", "dump"} # {} THEN "verified" ELSE "failed")
    /\ UNCHANGED <<remote, restOfShipping>>

AbortShipping ==
    /\ shipping.stage # "idle"
    /\ Stopped("failed")
    /\ UNCHANGED <<remote, restOfShipping>>

(* verify-postgres-backup.sh: the dump is restored into a database made    *)
(* for it, and the rows are counted and compared with the sidecar.         *)
restOfVerifying == <<content, hour, backup, local, remote, shipping>>

Goes(v, stage) == verifier' = [verifier EXCEPT ![v].stage = stage]

StartVerifying(v, b, keep) ==
    /\ verifier[v].stage = "none"
    /\ Bundle \subseteq local[b]
    /\ verifier' = [verifier EXCEPT ![v].stage = "create", ![v].of = b, ![v].keep = keep]
    /\ UNCHANGED <<restored, restOfVerifying>>

CreateDatabase(v) ==
    /\ verifier[v].stage = "create"
    /\ restored' = [restored EXCEPT ![v] = 0]
    /\ Goes(v, "created")
    /\ UNCHANGED restOfVerifying

MarkCreated(v) ==
    /\ verifier[v].stage = "created"
    /\ verifier' = [verifier EXCEPT ![v].stage = "restore", ![v].created = TRUE]
    /\ UNCHANGED <<restored, restOfVerifying>>

Restore(v) ==
    LET b == verifier[v].of
    IN  /\ verifier[v].stage = "restore" /\ "dump" \in local[b]
        /\ restored' = [restored EXCEPT ![v] = backup[b].dump]
        /\ Goes(v, "compare")
        /\ UNCHANGED restOfVerifying

Compare(v) ==
    LET b == verifier[v].of
    IN  /\ verifier[v].stage = "compare"
        /\ Goes(v, IF "metadata" \in local[b] /\ backup[b].metadata = restored[v]
                   THEN "drop" ELSE "cleanup")
        /\ UNCHANGED <<restored, restOfVerifying>>

KeepDatabase(v) ==
    /\ verifier[v].stage = "drop" /\ verifier[v].keep
    /\ verifier' = [verifier EXCEPT ![v].stage = "over", ![v].created = FALSE,
                                    ![v].told = "retained"]
    /\ UNCHANGED <<restored, restOfVerifying>>

DropDatabase(v) ==
    /\ verifier[v].stage = "drop" /\ ~verifier[v].keep
    /\ restored' = [restored EXCEPT ![v] = Nil]
    /\ Goes(v, "dropped")
    /\ UNCHANGED restOfVerifying

TellVerified(v) ==
    /\ verifier[v].stage = "dropped"
    /\ verifier' = [verifier EXCEPT ![v].stage = "over", ![v].created = FALSE,
                                    ![v].told = "verified"]
    /\ UNCHANGED <<restored, restOfVerifying>>

\* A command fails, or there is a signal.
StopVerifying(v) ==
    /\ verifier[v].stage \notin {"none", "cleanup", "over"}
    /\ Goes(v, "cleanup")
    /\ UNCHANGED <<restored, restOfVerifying>>

\* Dropping it may fail, which is told as a failure like what led here.
CleanUpVerifying(v) ==
    /\ verifier[v].stage = "cleanup"
    /\ \/ UNCHANGED restored
       \/ verifier[v].created /\ ~verifier[v].keep /\ restored' = [restored EXCEPT ![v] = Nil]
    /\ verifier' = [verifier EXCEPT ![v].stage = "over", ![v].told = "failed"]
    /\ UNCHANGED restOfVerifying

KillVerifying(v) ==
    /\ verifier[v].stage \notin {"none", "over"}
    /\ Goes(v, "over")
    /\ UNCHANGED <<restored, restOfVerifying>>

-----------------------------------------------------------------------------
WriteContent ==
    /\ content < MaxContent
    /\ content' = content + 1
    /\ UNCHANGED <<hour, backup, local, remote, shipping, verifier, restored>>

\* A run of the off-host job is short against the days between its ages.
PassHour ==
    /\ hour < MaxHour /\ shipping.stage = "idle"
    /\ hour' = hour + 1
    /\ shipping' = NotShipping
    /\ UNCHANGED <<content, backup, local, remote, verifier, restored>>

Next ==
    \/ WriteContent \/ PassHour
    \/ \E b \in Dumps : \/ ExportSnapshot(b) \/ DumpDatabase(b) \/ CountRows(b) \/ Publish(b)
                        \/ CompleteBackup(b) \/ StopBackup(b) \/ CleanUpIncomplete(b)
                        \/ KillBackup(b)
    \/ \E c \in Copies : CoolifyBackup(c)
    \/ \E b \in Ids : Prune(b)
    \/ StartShipping \/ CheckBundles \/ CheckRecent \/ CryptCheck \/ DeleteFile \/ EndShipping
    \/ AbortShipping
    \/ \E b \in Ids, f \in Bundle \cup {"work", "dmp"} : CopyFile(b, f)
    \/ \E b \in Ids : ExpireCopy(b) \/ ExpireBundle(b)
    \/ \E v \in Verifiers :
          \/ \E b \in Dumps, keep \in BOOLEAN : StartVerifying(v, b, keep)
          \/ CreateDatabase(v) \/ MarkCreated(v) \/ Restore(v) \/ Compare(v) \/ KeepDatabase(v)
          \/ DropDatabase(v) \/ TellVerified(v) \/ StopVerifying(v) \/ CleanUpVerifying(v)
          \/ KillVerifying(v)

Spec == Init /\ [][Next]_backupVars

-----------------------------------------------------------------------------
(* Whatever fails and whenever a run is killed, a dump that has its name   *)
(* has both sidecars, and they describe what is in it, although the        *)
(* application writes all the time.                                        *)
BundlesAreWhole ==
    \A b \in Dumps : "dump" \in local[b] =>
        /\ Bundle \subseteq local[b]
        /\ backup[b].dump = backup[b].metadata

\* A run that has given its dump its name was stopped before it said so, and removes it.
TakenBack ==
    \E b \in Dumps : /\ backup[b].stage \in {"cleanup", "over"} /\ ~backup[b].complete
                     /\ backup[b].step \notin DOMAIN PublishOrder

IsWhole(files) == "dmp" \in files \/ Bundle \subseteq files

(* A verified bundle was restored, row for row, and the database made for  *)
(* that is gone; one that is kept holds the bundle.  An off-host run that  *)
(* says verified left a backup of less than the retention there, unless it *)
(* met one that is taken back.                                             *)
BackupsTellTruth ==
    /\ \A v \in Verifiers :
          /\ verifier[v].told = "verified" =>
                /\ restored[v] = Nil
                /\ backup[verifier[v].of].dump = backup[verifier[v].of].metadata
          /\ verifier[v].told = "retained" => restored[v] = backup[verifier[v].of].metadata
    /\ shipping.told = "verified" /\ ~TakenBack =>
          \E b \in Ids : Age(b) < Retention /\ IsWhole(remote[b])

(* Once there is a whole backup off the host there always is one: what is  *)
(* old goes only when what is new has been compared.                       *)
OffHostStays ==
    (\E b \in Ids : IsWhole(remote[b])) /\ ~TakenBack => \E b \in Ids : IsWhole(remote'[b])

=============================================================================
