-------------------------------- MODULE Backup --------------------------------
(***************************************************************************)
(* operations/backup.py create_backup: dump to a temporary file, check of  *)
(* its inventory, publication of the dump, then of the manifest that       *)
(* accepts it.  Backups share an output directory and die anywhere.        *)
(***************************************************************************)
EXTENDS Integers, FiniteSets, Absent

CONSTANTS
    BackupProc,       \* processes
    Digest,           \* the contents of a dump
    Instant,          \* start times, part of the name of a dump
    MaxBackups        \* bound: backups begun

ASSUME BackupAssumption == None \notin Digest /\ MaxBackups \in Nat

VARIABLES
    dump,             \* published dumps by name, with the digest of their bytes
    accepted,         \* published manifests by the name of the dump
    unremoved,        \* the names whose manifest got there before an error of its publication
    backup,           \* the locals of create_backup
    backups

backupVars == <<dump, accepted, unremoved, backup, backups>>

\* observatory-<start>-<digest>
DumpName == Instant \X Digest

NoBackup == [pc |-> "IDLE", name |-> None]

BackupRun == [pc: {"IDLE", "DUMP", "LIST", "PUBLISH_DUMP", "PUBLISH_MANIFEST", "DISCARD"},
              name: DumpName \cup {None}]

Step(b, from, to) == backup[b].pc = from /\ backup' = [backup EXCEPT ![b].pc = to]

BeginBackup(b) ==
    /\ backups < MaxBackups
    /\ Step(b, "IDLE", "DUMP")
    /\ backups' = backups + 1
    /\ UNCHANGED <<dump, accepted, unremoved>>

\* pg_dump into a temporary file; its digest and the start time make the name.
Dump(b) ==
    /\ backup[b].pc = "DUMP"
    /\ \E n \in DumpName : backup' = [backup EXCEPT ![b] = [pc |-> "LIST", name |-> n]]
    /\ UNCHANGED <<dump, accepted, unremoved, backups>>

ListInventory(b) ==
    /\ Step(b, "LIST", "PUBLISH_DUMP")
    /\ UNCHANGED <<dump, accepted, unremoved, backups>>

\* A tool fails, or the process dies.  What was published stays.
Abandon(b) ==
    /\ backup[b].pc # "IDLE"
    /\ backup' = [backup EXCEPT ![b] = NoBackup]
    /\ UNCHANGED <<dump, accepted, unremoved, backups>>

PublishManifestFirst(b) ==   \* mutant: the manifest before the dump
    LET n == backup[b].name
    IN  /\ backup[b].pc = "PUBLISH_DUMP"
        /\ accepted' = [accepted EXCEPT ![n] = n[2]]
        /\ Step(b, "PUBLISH_DUMP", "PUBLISH_MANIFEST")
        /\ UNCHANGED <<dump, unremoved, backups>>

\* No overwrite: where the target exists, the backup fails and leaves it.
PublishDump(b) ==
    LET n == backup[b].name
    IN  /\ backup[b].pc = "PUBLISH_DUMP"
        /\ IF dump[n] = None
             THEN dump' = [dump EXCEPT ![n] = n[2]] /\ Step(b, "PUBLISH_DUMP", "PUBLISH_MANIFEST")
             ELSE UNCHANGED dump /\ backup' = [backup EXCEPT ![b] = NoBackup]
        /\ UNCHANGED <<accepted, unremoved, backups>>

PublishManifest(b) ==
    LET n == backup[b].name
    IN  /\ backup[b].pc = "PUBLISH_MANIFEST"
        /\ IF accepted[n] = None
             THEN /\ accepted' = [accepted EXCEPT ![n] = n[2]]
                  /\ backup' = [backup EXCEPT ![b] = NoBackup]
             ELSE Step(b, "PUBLISH_MANIFEST", "DISCARD") /\ UNCHANGED accepted
        /\ UNCHANGED <<dump, unremoved, backups>>

\* Any other failure before the manifest is there.
ManifestFails(b) ==
    /\ Step(b, "PUBLISH_MANIFEST", "DISCARD")
    /\ UNCHANGED <<dump, accepted, unremoved, backups>>

\* The manifest is there by its link, and then its temporary file cannot be removed.
UnlinkFails(b) ==
    LET n == backup[b].name
    IN  /\ Step(b, "PUBLISH_MANIFEST", "DISCARD")
        /\ accepted[n] = None
        /\ accepted' = [accepted EXCEPT ![n] = n[2]]
        /\ unremoved' = unremoved \cup {n}
        /\ UNCHANGED <<dump, backups>>

\* The dump this backup published is removed.
Discard(b) ==
    /\ backup[b].pc = "DISCARD"
    /\ dump' = [dump EXCEPT ![backup[b].name] = None]
    /\ backup' = [backup EXCEPT ![b] = NoBackup]
    /\ UNCHANGED <<accepted, unremoved, backups>>

BackupInit ==
    /\ dump = [n \in DumpName |-> None]
    /\ accepted = [n \in DumpName |-> None]
    /\ unremoved = {}
    /\ backup = [b \in BackupProc |-> NoBackup]
    /\ backups = 0

BackupNext ==
    \E b \in BackupProc :
        \/ BeginBackup(b) \/ Dump(b) \/ ListInventory(b) \/ Abandon(b)
        \/ PublishDump(b) \/ PublishManifest(b) \/ ManifestFails(b)
        \/ UnlinkFails(b) \/ Discard(b)

BackupSpec == BackupInit /\ [][BackupNext]_backupVars

\* Types of the output directory and of the processes.
BackupTypeOK ==
    /\ dump \in [DumpName -> Digest \cup {None}]
    /\ accepted \in [DumpName -> Digest \cup {None}]
    /\ unremoved \subseteq DumpName
    /\ backup \in [BackupProc -> BackupRun]
    /\ backups \in 0..MaxBackups

\* A manifest accepts a dump that is there with the digest it names: through crashes between
\* the two publications, a manifest that cannot be published, and backups of one name.  Excepted
\* are the manifests that were there when their publication failed: their dumps are removed.
ManifestVouches ==
    \A n \in DumpName \ unremoved : accepted[n] # None => dump[n] = accepted[n]

=============================================================================
