---------------------------- MODULE BackupRestore -----------------------------
(***************************************************************************)
(* The backup command (src/operations/backup.ts) and the restore drill     *)
(* (src/operations/restore-drill.ts): processes that work through files    *)
(* and PostgreSQL tools, any step of which may fail, time out or be the    *)
(* last one before a crash.                                                *)
(*                                                                         *)
(* A file is absent, cut (being written, or left half written), whole, or  *)
(* damaged (changed in storage after it was complete).  The manifest holds *)
(* the hash of the whole artifact, and AES-GCM authenticates the same      *)
(* bytes: each of the two checks passes for a whole artifact only.         *)
(*                                                                         *)
(* Names that Migrations has too carry a prefix here, so that one module   *)
(* can extend both and prove what the operations commands promise.         *)
(***************************************************************************)

CONSTANTS
  Backups, \* runs of the backup command; each names its files by a fresh uuid
  Drills,  \* runs of the restore drill, all with one RESTORE_DATABASE_NAME
  Keeping, \* drills run with KEEP_RESTORE_DATABASE=true
  NoDrill   \* no database of that name

ASSUME BackupAssumption == Keeping \subseteq Drills /\ NoDrill \notin Drills

VARIABLES
  bpc,     \* the progress of a backup run
  file,    \* file[b][kind]: the state of a file of run b
  dpc,     \* the progress of a drill
  source,  \* the artifact a drill was given
  plain,   \* the archive it decrypted
  created, \* its flag: createdb returned
  success, \* it reported restore_drill_succeeded
  database \* the drill that created the target database, or NoDrill

backupVars   == <<bpc, file>>
drillVars    == <<dpc, source, plain, created, success, database>>
recoveryVars == <<bpc, file, dpc, source, plain, created, success, database>>

Kinds   == {"raw", "partialBackup", "partialManifest", "backup", "manifest"}
Partial == {"partialBackup", "partialManifest"}
States  == {"absent", "cut", "whole", "damaged"}
BPCs    == {"idle", "dumping", "dumped", "listed", "encrypting", "encrypted", "describing",
            "described", "renamed", "published", "failed", "over", "crashed"}
DPCs    == {"idle", "hashed", "decrypted", "created", "restored", "closing", "over", "crashed"}

RecoveryInit ==
  /\ bpc      = [b \in Backups |-> "idle"]
  /\ file     = [b \in Backups |-> [k \in Kinds |-> "absent"]]
  /\ dpc      = [d \in Drills |-> "idle"]
  /\ source   \in [Drills -> Backups]
  /\ plain    = [d \in Drills |-> "absent"]
  /\ created  = [d \in Drills |-> FALSE]
  /\ success  = [d \in Drills |-> FALSE]
  /\ database = NoDrill

-------------------------------------------------------------------------------
(* The backup command.                                                     *)

BGo(b, from, to) == bpc[b] = from /\ bpc' = [bpc EXCEPT ![b] = to]

Write(b, kind, state) == file' = [file EXCEPT ![b][kind] = state]

\* pg_dump starts writing the archive.
Dump(b) == BGo(b, "idle", "dumping") /\ Write(b, "raw", "cut")

\* The child exited with 0 and its output was copied to the end.
Dumped(b) == BGo(b, "dumping", "dumped") /\ Write(b, "raw", "whole")

\* pg_restore --list reads the archive; then the key is read.
Listed(b) == BGo(b, "dumped", "listed") /\ UNCHANGED file

\* encryptFile writes the header, then the ciphertext, then the tag.
Encrypt(b) == BGo(b, "listed", "encrypting") /\ Write(b, "partialBackup", "cut")

Encrypted(b) == BGo(b, "encrypting", "encrypted") /\ Write(b, "partialBackup", "whole")

Describe(b)  == BGo(b, "encrypted", "describing") /\ Write(b, "partialManifest", "cut")

Described(b) == BGo(b, "describing", "described") /\ Write(b, "partialManifest", "whole")

Rename(b, from, to) ==
  file' = [file EXCEPT ![b][to] = file[b][from], ![b][from] = "absent"]

\* Mutant of PublishBackup: the manifest is renamed first.
PublishManifestFirst(b) ==
  BGo(b, "described", "renamed") /\ Rename(b, "partialManifest", "manifest")

PublishBackup(b) ==
  BGo(b, "described", "renamed") /\ Rename(b, "partialBackup", "backup")

PublishManifest(b) ==
  BGo(b, "renamed", "published") /\ Rename(b, "partialManifest", "manifest")

\* Any step throws: a tool's exit code or timeout, a full disk.
Fails(b) ==
  /\ bpc[b] \notin {"idle", "published", "failed", "over", "crashed"}
  /\ bpc' = [bpc EXCEPT ![b] = "failed"]
  /\ UNCHANGED file

\* catch removes the partial files, as far as it can; finally removes the
\* directory of the archive, unless the cleanup before it throws.
BClose(b) ==
  /\ bpc[b] \in {"failed", "published"}
  /\ bpc' = [bpc EXCEPT ![b] = "over"]
  /\ \E left \in SUBSET (Partial \cup {"raw"}) :
       file' = [file EXCEPT ![b] = [k \in Kinds |->
         IF k \in {"backup", "manifest"} \/ k \in left THEN file[b][k] ELSE "absent"]]

BCrash(b) ==
  /\ bpc[b] \notin {"idle", "over", "crashed"}
  /\ bpc' = [bpc EXCEPT ![b] = "crashed"]
  /\ UNCHANGED file

\* Storage changes a published artifact.
Damage(b) ==
  /\ file[b]["backup"] = "whole"
  /\ Write(b, "backup", "damaged")
  /\ UNCHANGED bpc

BackupStep(b) ==
  /\ \/ Dump(b) \/ Dumped(b) \/ Listed(b) \/ Encrypt(b) \/ Encrypted(b)
     \/ Describe(b) \/ Described(b) \/ PublishBackup(b) \/ PublishManifest(b)
     \/ Fails(b) \/ BClose(b) \/ BCrash(b) \/ Damage(b)
  /\ UNCHANGED drillVars

-------------------------------------------------------------------------------
(* The restore drill.                                                      *)

DGo(d, from, to) == dpc[d] = from /\ dpc' = [dpc EXCEPT ![d] = to]

Artifact(d) == file[source[d]]["backup"]

\* Both files exist and the manifest's hash is that of the artifact; if not,
\* nothing has been done yet and the command ends.
Hash(d) ==
  /\ IF file[source[d]]["manifest"] = "whole" /\ Artifact(d) = "whole"
     THEN DGo(d, "idle", "hashed") ELSE DGo(d, "idle", "over")
  /\ UNCHANGED <<plain, created, success, database>>

\* Mutant of Authentic: what was hashed is not checked again.
AuthenticAsHashed(d) == Artifact(d) # "absent"

\* decryptFile reads the artifact again: the tag verifies.
Authentic(d) == Artifact(d) = "whole"

\* The archive is decrypted and pg_restore --list reads it.
Decrypt(d) ==
  /\ Authentic(d)
  /\ DGo(d, "hashed", "decrypted")
  /\ plain' = [plain EXCEPT ![d] = Artifact(d)]
  /\ UNCHANGED <<created, success, database>>

\* createdb makes the database and returns.
CreateDatabase(d) ==
  /\ database = NoDrill
  /\ DGo(d, "decrypted", "created")
  /\ database' = d
  /\ created' = [created EXCEPT ![d] = TRUE]
  /\ UNCHANGED <<plain, success>>

\* createdb made the database, and its client was stopped or cut off.
CreateOutrun(d) ==
  /\ database = NoDrill
  /\ DGo(d, "decrypted", "closing")
  /\ database' = d
  /\ UNCHANGED <<plain, created, success>>

\* pg_restore --exit-on-error
Restore(d) ==
  /\ DGo(d, "created", "restored")
  /\ UNCHANGED <<plain, created, success, database>>

\* psql finds both tables.
Verify(d) ==
  /\ DGo(d, "restored", "closing")
  /\ success' = [success EXCEPT ![d] = TRUE]
  /\ UNCHANGED <<plain, created, database>>

\* Any command fails, createdb of an existing database among them.
DThrows(d) ==
  /\ dpc[d] \in {"hashed", "decrypted", "created", "restored"}
  /\ dpc' = [dpc EXCEPT ![d] = "closing"]
  /\ UNCHANGED <<plain, created, success, database>>

\* Mutant of Drops: the database is dropped whoever created it.
DropsAlways(d) == d \notin Keeping

\* if (created && KEEP_RESTORE_DATABASE !== "true")
Drops(d) == created[d] /\ d \notin Keeping

\* finally: dropdb --if-exists goes by name, and its failure is ignored; a client
\* that was stopped by its timeout may leave the server at it (LateDrop).
Finish(d) ==
  /\ DGo(d, "closing", "over")
  /\ database' \in IF Drops(d) THEN {NoDrill, database} ELSE {database}
  /\ plain' = [plain EXCEPT ![d] = "absent"]
  /\ UNCHANGED <<created, success>>

DCrash(d) ==
  /\ dpc[d] \notin {"idle", "over", "crashed"}
  /\ dpc' = [dpc EXCEPT ![d] = "crashed"]
  /\ UNCHANGED <<plain, created, success, database>>

\* An operator drops the database of a drill that is over; or the server does,
\* at the dropdb whose client was stopped by the timeout or died with the drill.
\* A drop that the server has begun holds the lock of the database it found.
LateDrop ==
  /\ database # NoDrill /\ dpc[database] \in {"over", "crashed"}
  /\ database' = NoDrill
  /\ UNCHANGED <<dpc, plain, created, success>>

DrillStep(d) ==
  /\ \/ Hash(d) \/ Decrypt(d) \/ CreateDatabase(d) \/ CreateOutrun(d) \/ Restore(d)
     \/ Verify(d) \/ DThrows(d) \/ Finish(d) \/ DCrash(d)
  /\ UNCHANGED <<backupVars, source>>

LateStep == LateDrop /\ UNCHANGED <<backupVars, source>>

RecoveryNext ==
  \/ \E b \in Backups : BackupStep(b)
  \/ \E d \in Drills : DrillStep(d)
  \/ LateStep

RecoverySpec == RecoveryInit /\ [][RecoveryNext]_recoveryVars

-------------------------------------------------------------------------------
(* Properties.                                                             *)

RecoveryTypeOK ==
  /\ bpc      \in [Backups -> BPCs]
  /\ file     \in [Backups -> [Kinds -> States]]
  /\ dpc      \in [Drills -> DPCs]
  /\ source   \in [Drills -> Backups]
  /\ plain    \in [Drills -> States]
  /\ created  \in [Drills -> BOOLEAN]
  /\ success  \in [Drills -> BOOLEAN]
  /\ database \in Drills \cup {NoDrill}

\* "Treat a backup as committed only when both .dump.enc and .manifest.json
\* exist": wherever the command fails or crashes, a manifest is complete and
\* its artifact is there, and a published artifact was written to the end: only
\* storage can spoil it.
PublishedIsWhole ==
  \A b \in Backups :
    /\ file[b]["backup"] # "cut"
    /\ file[b]["manifest"] # "absent" =>
         file[b]["manifest"] = "whole" /\ file[b]["backup"] # "absent"

\* A drill restores, and reports success of, an authentic archive only, though
\* the artifact may change between the check of its hash and its decryption.
RestoresAuthentic ==
  \A d \in Drills :
    /\ dpc[d] \in {"decrypted", "created", "restored"} => plain[d] = "whole"
    /\ success[d] /\ dpc[d] = "closing" => plain[d] = "whole"

\* "Refuses to overwrite an existing database ... and drops only the database
\* it created": a drill at work has its database to itself.
HasItsDatabase ==
  \A d \in Drills :
    dpc[d] \in {"created", "restored"} \/ (dpc[d] = "closing" /\ created[d])
    => database = d
===============================================================================
