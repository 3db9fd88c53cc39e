--------------------------- MODULE OperationsProofs ---------------------------
(***************************************************************************)
(* Proofs about the operations commands: the migration runner, for any     *)
(* number of runners, files and faults, and the backup command and restore *)
(* drill, for any number of runs of each.                                  *)
(***************************************************************************)
EXTENDS Migrations, BackupRestore, TLAPS

-------------------------------------------------------------------------------
(* Migrations.  The invariant: a runner has passed only recorded files, and *)
(* every file before an applied one is recorded.  It needs nothing of the   *)
(* lock, so the order of the schema does not rest on it.                    *)

Working(r) == pc[r] \in {"checking", "applying", "recording"}

\* What a runner knows of the files up to the one it is at.
RunnerShape ==
  \A r \in Runners :
    /\ Working(r) => \A g \in Files : g < pos[r] => g \in recorded
    /\ pc[r] \in {"applying", "recording"} => pos[r] \in Files
    /\ pc[r] = "recording" => pos[r] \in applied
    /\ pc[r] = "waiting" => pos[r] = 1

\* Every file before an applied one is recorded.
BeforeApplied == \A f \in applied, g \in Files : g < f => g \in recorded

IInv ==
  /\ TypeOK /\ RunnerShape /\ BeforeApplied
  /\ recorded \subseteq applied

-------------------------------------------------------------------------------

\* Waiting runners before an empty schema satisfy the invariant.
LEMMA MigrationsInit == Init => IInv
<1> SUFFICES ASSUME Init PROVE IInv
  OBVIOUS
<1>1. 1 \in 1..(Last + 1)
  BY MigrationsAssumption
<1> QED BY <1>1, MigrationsAssumption
        DEF Init, IInv, TypeOK, PCs, RunnerShape, Working, BeforeApplied

\* A runner's step that applies and records nothing and goes back or nowhere.
LEMMA QuietStep ==
  ASSUME IInv, TypeOK', UNCHANGED <<applied, recorded>>, RunnerShape'
  PROVE  IInv'
  BY DEF IInv, BeforeApplied

\* Running the file after the recorded ones keeps the order.
LEMMA ApplyStep ==
  ASSUME IInv, NEW r \in Runners, pc[r] = "applying", TypeOK',
         applied' = applied \cup {pos[r]}, UNCHANGED <<pos, recorded>>,
         \A q \in Runners : pc'[q] = pc[q] \/ (q = r /\ pc'[q] \in {"recording", "closing"})
  PROVE  IInv'
<1>1. pos[r] \in Files /\ \A g \in Files : g < pos[r] => g \in recorded
  BY DEF IInv, RunnerShape, Working
<1>2. RunnerShape'
  <2>1. SUFFICES ASSUME NEW q \in Runners
                 PROVE  /\ Working(q)' => \A g \in Files : g < pos[q] => g \in recorded
                        /\ pc'[q] \in {"applying", "recording"} => pos[q] \in Files
                        /\ pc'[q] = "recording" => pos[q] \in applied'
                        /\ pc'[q] = "waiting" => pos[q] = 1
    BY DEF RunnerShape
  <2>2. CASE pc'[q] = pc[q]
    BY <2>2 DEF IInv, RunnerShape, Working
  <2>3. CASE q = r
    BY <1>1, <2>3 DEF Working
  <2> QED BY <2>2, <2>3
<1>3. BeforeApplied'
  BY <1>1 DEF IInv, BeforeApplied, Files
<1> QED BY <1>2, <1>3 DEF IInv

\* Every step of a runner keeps the invariant.
LEMMA MigrationsStep == IInv /\ [Next]_vars => IInv'
<1> SUFFICES ASSUME IInv, [Next]_vars PROVE IInv'
  OBVIOUS
<1> USE DEF Go, Fault
<1>1. CASE UNCHANGED vars
  BY <1>1 DEF vars, IInv, TypeOK, RunnerShape, Working, BeforeApplied
<1>2. ASSUME NEW r \in Runners, Lock(r) \/ Again(r) PROVE IInv'
  <2>1. 1 \in 1..(Last + 1)
    BY MigrationsAssumption
  <2>2. TypeOK'
    BY <1>2, <2>1 DEF IInv, TypeOK, PCs, Lock, Again
  <2>3. RunnerShape'
    BY <1>2 DEF IInv, TypeOK, RunnerShape, Working, Lock, Again, Files
  <2> QED BY <1>2, <2>2, <2>3, QuietStep DEF Lock, Again
<1>3. ASSUME NEW r \in Runners, Skip(r) PROVE IInv'
  <2>1. pos[r] \in 1..Last /\ pos[r] + 1 \in 1..(Last + 1)
    BY <1>3, MigrationsAssumption DEF IInv, TypeOK, Skip, Files
  <2>2. TypeOK'
    BY <1>3, <2>1 DEF IInv, TypeOK, Skip
  <2>3. \A g \in Files : g < pos[r] + 1 => g \in recorded
    BY <1>3, <2>1 DEF IInv, RunnerShape, Working, Skip, Files
  <2>4. RunnerShape'
    BY <1>3, <2>1, <2>3 DEF IInv, TypeOK, RunnerShape, Working, Skip
  <2> QED BY <1>3, <2>2, <2>4, QuietStep DEF Skip
<1>4. ASSUME NEW r \in Runners, Read(r) \/ ApplyFails(r) \/ AtEnd(r) PROVE IInv'
  <2>1. TypeOK'
    BY <1>4 DEF IInv, TypeOK, PCs, Read, ApplyFails, AtEnd
  <2>2. RunnerShape'
    BY <1>4 DEF IInv, TypeOK, RunnerShape, Working, Read, ApplyFails, AtEnd
  <2> QED BY <1>4, <2>1, <2>2, QuietStep DEF Read, ApplyFails, AtEnd
<1>5. ASSUME NEW r \in Runners, Apply(r) PROVE IInv'
  <2>1. pos[r] \in Files
    BY <1>5 DEF IInv, RunnerShape, Apply
  <2>2. TypeOK'
    BY <1>5, <2>1 DEF IInv, TypeOK, PCs, Apply
  <2>3. \A q \in Runners : pc'[q] = pc[q] \/ (q = r /\ pc'[q] \in {"recording", "closing"})
    BY <1>5 DEF IInv, TypeOK, Apply
  <2> QED BY <1>5, <2>2, <2>3, ApplyStep DEF Apply
<1>6. ASSUME NEW r \in Runners, Record(r) PROVE IInv'
  <2>1. pos[r] \in 1..Last /\ pos[r] + 1 \in 1..(Last + 1) /\ pos[r] \in applied
    BY <1>6, MigrationsAssumption DEF IInv, RunnerShape, Record, Files
  <2>2. TypeOK'
    BY <1>6, <2>1 DEF IInv, TypeOK, PCs, Record, Files
  <2>3. \A g \in Files : g < pos[r] + 1 => g \in recorded'
    BY <1>6, <2>1 DEF IInv, RunnerShape, Working, Record, Files
  <2>4. RunnerShape'
    BY <1>6, <2>1, <2>3 DEF IInv, TypeOK, RunnerShape, Working, Record
  <2>5. BeforeApplied' /\ recorded' \subseteq applied'
    BY <1>6, <2>1 DEF IInv, BeforeApplied, Record
  <2> QED BY <2>2, <2>4, <2>5 DEF IInv
<1>7. ASSUME NEW r \in Runners, Throws(r) PROVE IInv'
  <2>1. \A q \in Runners : pc'[q] = pc[q] \/ (q = r /\ pc'[q] \in {"recording", "closing"})
    BY <1>7 DEF IInv, TypeOK, Throws
  <2>2. faults' \in 0..MaxFaults /\ pc' \in [Runners -> PCs]
    BY <1>7, MigrationsAssumption DEF IInv, TypeOK, PCs, Throws
  <2>3. CASE applied' = applied
    <3>1. TypeOK'
      BY <1>7, <2>2, <2>3 DEF IInv, TypeOK, Throws
    <3>2. RunnerShape'
      BY <1>7, <2>1, <2>3 DEF IInv, TypeOK, RunnerShape, Working, Throws
    <3> QED BY <1>7, <2>3, <3>1, <3>2, QuietStep DEF Throws
  <2>4. CASE pc[r] = "applying" /\ applied' = applied \cup {pos[r]}
    <3>1. pos[r] \in Files
      BY <2>4 DEF IInv, RunnerShape
    <3>2. TypeOK'
      BY <1>7, <2>2, <2>4, <3>1 DEF IInv, TypeOK, Throws
    <3> QED BY <1>7, <2>1, <2>4, <3>2, ApplyStep DEF Throws
  <2> QED BY <1>7, <2>3, <2>4 DEF Throws
<1>8. ASSUME NEW r \in Runners, Close(r) \/ Crash(r) \/ LoseSession(r) PROVE IInv'
  <2>1. TypeOK'
    BY <1>8, MigrationsAssumption
    DEF IInv, TypeOK, PCs, Close, Crash, LoseSession, Unlocked
  <2>2. RunnerShape'
    BY <1>8 DEF IInv, TypeOK, RunnerShape, Working, Close, Crash, LoseSession
  <2> QED BY <1>8, <2>1, <2>2, QuietStep DEF Close, Crash, LoseSession
<1> QED BY <1>1, <1>2, <1>3, <1>4, <1>5, <1>6, <1>7, <1>8 DEF Next, Step

-------------------------------------------------------------------------------

\* The schema goes from file to file under every crash, failed statement and
\* lost lock: applied and recorded files are prefixes of the list, and at most
\* one applied file is not recorded.
THEOREM SchemaInOrderCorrect == Spec => []SchemaInOrder
<1>1. IInv => SchemaInOrder
  <2> SUFFICES ASSUME IInv PROVE SchemaInOrder
    OBVIOUS
  <2>1. applied \subseteq Files /\ recorded \subseteq applied
    BY DEF IInv, TypeOK
  <2>2. ASSUME NEW f \in applied, NEW g \in 1..f
        PROVE  g \in applied /\ (g # f => g \in recorded)
    <3>1. f \in 1..Last /\ g \in 1..Last
      BY <2>1, MigrationsAssumption DEF Files
    <3>2. g < f => g \in recorded
      BY <3>1 DEF IInv, BeforeApplied, Files
    <3>3. g = f \/ g < f
      BY <3>1
    <3> QED BY <2>1, <3>2, <3>3
  <2>3. IsPrefix(applied) /\ IsPrefix(recorded)
    BY <2>1, <2>2 DEF IsPrefix
  <2>4. ASSUME NEW f \in applied \ recorded, NEW g \in applied \ recorded
        PROVE  f = g
    <3>1. f \in Nat /\ g \in Nat /\ f \in Files /\ g \in Files
      BY <2>1, MigrationsAssumption DEF Files
    <3>2. ~ (f < g) /\ ~ (g < f)
      BY <3>1 DEF IInv, BeforeApplied
    <3> QED BY <3>1, <3>2
  <2> QED BY <2>1, <2>3, <2>4 DEF SchemaInOrder
<1> QED BY <1>1, MigrationsInit, MigrationsStep, PTL DEF Spec

\* The variables keep their types.
THEOREM MigrationsTypeCorrect == Spec => []TypeOK
<1>1. IInv => TypeOK
  BY DEF IInv
<1> QED BY <1>1, MigrationsInit, MigrationsStep, PTL DEF Spec

-------------------------------------------------------------------------------
(* Backup and restore.  The invariant: how far a backup run has come says   *)
(* what its files are, and a drill that has created the database and has    *)
(* not ended is the one that the database belongs to.                       *)

\* What the files of a run are, by its progress.
FilesShape ==
  \A b \in Backups :
    /\ file[b]["backup"] # "cut"
    /\ bpc[b] \notin {"renamed", "published", "failed", "over", "crashed"} =>
         file[b]["backup"] = "absent"
    /\ bpc[b] \notin {"published", "failed", "over", "crashed"} =>
         file[b]["manifest"] = "absent"
    /\ bpc[b] \in {"encrypted", "describing", "described"} =>
         file[b]["partialBackup"] = "whole"
    /\ bpc[b] \in {"described", "renamed"} => file[b]["partialManifest"] = "whole"
    /\ bpc[b] = "renamed" => file[b]["backup"] # "absent"
    /\ file[b]["manifest"] # "absent" =>
         file[b]["manifest"] = "whole" /\ file[b]["backup"] # "absent"

\* What a drill has decrypted, created and reported, by its progress.
DrillShape ==
  \A d \in Drills :
    /\ dpc[d] \in {"decrypted", "created", "restored"} => plain[d] = "whole"
    /\ success[d] => dpc[d] \in {"closing", "over", "crashed"}
    /\ success[d] /\ dpc[d] = "closing" => plain[d] = "whole"
    /\ dpc[d] \in {"created", "restored"} => created[d]
    /\ created[d] => dpc[d] \in {"created", "restored", "closing", "over", "crashed"}
    /\ created[d] /\ dpc[d] \notin {"over", "crashed"} => database = d

RecoveryInv == RecoveryTypeOK /\ FilesShape /\ DrillShape

-------------------------------------------------------------------------------

\* Before any command there is no file and no database.
LEMMA RecoveryStart == RecoveryInit => RecoveryInv
  BY DEF RecoveryInit, RecoveryInv, RecoveryTypeOK, FilesShape, DrillShape,
     Kinds, States, BPCs, DPCs

\* A step of the backup command keeps the shape of its files.
LEMMA BackupKeeps ==
  ASSUME RecoveryInv, NEW b \in Backups, BackupStep(b)
  PROVE  RecoveryInv'
<1> USE DEF RecoveryInv, BGo
<1>1. DrillShape' /\ UNCHANGED drillVars
  BY DEF BackupStep, drillVars, DrillShape
<1>2. bpc' \in [Backups -> BPCs]
  BY DEF RecoveryTypeOK, BackupStep, Dump, Dumped, Listed, Encrypt, Encrypted, Describe, Described,
     PublishBackup, PublishManifest, Fails, BClose, BCrash, Damage, BPCs
<1>3. file' \in [Backups -> [Kinds -> States]]
  <2>1. \A kind \in Kinds : \A state \in States :
          Write(b, kind, state) => file' \in [Backups -> [Kinds -> States]]
    BY DEF RecoveryTypeOK, Write
  <2>2. CASE Dump(b) \/ Dumped(b) \/ Listed(b) \/ Encrypt(b) \/ Encrypted(b)
             \/ Describe(b) \/ Described(b) \/ Damage(b)
    BY <2>1, <2>2 DEF Dump, Dumped, Listed, Encrypt, Encrypted, Describe, Described, Damage,
       RecoveryTypeOK, Kinds, States
  <2>3. CASE PublishBackup(b) \/ PublishManifest(b)
    <3>1. \A from, to \in Kinds :
            Rename(b, from, to) => file' \in [Backups -> [Kinds -> States]]
      BY DEF RecoveryTypeOK, Rename, States
    <3> QED BY <2>3, <3>1 DEF PublishBackup, PublishManifest, Kinds
  <2>4. CASE Fails(b) \/ BCrash(b)
    BY <2>4 DEF Fails, BCrash, RecoveryTypeOK
  <2>5. CASE BClose(b)
    <3>1. \A k \in Kinds : file[b][k] \in States /\ "absent" \in States
      BY DEF RecoveryTypeOK, States
    <3> QED BY <2>5, <3>1 DEF BClose, RecoveryTypeOK
  <2> QED BY <2>2, <2>3, <2>4, <2>5 DEF BackupStep
<1>4. FilesShape'
  <2> USE DEF RecoveryTypeOK, Write, Rename, Kinds, States
  <2> SUFFICES ASSUME NEW a \in Backups
               PROVE  /\ file'[a]["backup"] # "cut"
                      /\ bpc'[a] \notin {"renamed", "published", "failed", "over", "crashed"} =>
                           file'[a]["backup"] = "absent"
                      /\ bpc'[a] \notin {"published", "failed", "over", "crashed"} =>
                           file'[a]["manifest"] = "absent"
                      /\ bpc'[a] \in {"encrypted", "describing", "described"} =>
                           file'[a]["partialBackup"] = "whole"
                      /\ bpc'[a] \in {"described", "renamed"} => file'[a]["partialManifest"] = "whole"
                      /\ bpc'[a] = "renamed" => file'[a]["backup"] # "absent"
                      /\ file'[a]["manifest"] # "absent" =>
                           file'[a]["manifest"] = "whole" /\ file'[a]["backup"] # "absent"
    BY DEF FilesShape
  <2> USE DEF FilesShape
  <2>1. CASE Dump(b) \/ Dumped(b) \/ Listed(b) \/ Encrypt(b) \/ Encrypted(b)
    BY <2>1 DEF Dump, Dumped, Listed, Encrypt, Encrypted
  <2>2. CASE Describe(b) \/ Described(b)
    BY <2>2 DEF Describe, Described
  <2>3. CASE PublishBackup(b) \/ PublishManifest(b)
    BY <2>3 DEF PublishBackup, PublishManifest
  <2>4. CASE Fails(b) \/ BCrash(b) \/ Damage(b)
    BY <2>4 DEF Fails, BCrash, Damage
  <2>5. CASE BClose(b)
    BY <2>5 DEF BClose
  <2> QED BY <2>1, <2>2, <2>3, <2>4, <2>5 DEF BackupStep
<1> QED BY <1>1, <1>2, <1>3, <1>4 DEF RecoveryTypeOK, drillVars

\* A step of a drill keeps what the drills know, whoever owns the database.
LEMMA DrillKeeps ==
  ASSUME RecoveryInv, NEW d \in Drills, DrillStep(d)
  PROVE  RecoveryInv'
<1> USE BackupAssumption DEF RecoveryInv, RecoveryTypeOK, DGo
<1>1. FilesShape' /\ UNCHANGED <<backupVars, source>>
  BY DEF DrillStep, backupVars, FilesShape
<1>2. RecoveryTypeOK' /\ DrillShape'
  <2> USE DEF DrillShape, DPCs, States
  <2>1. CASE Hash(d)
    BY <1>1, <2>1 DEF Hash, backupVars
  <2>2. CASE Decrypt(d)
    BY <1>1, <2>2 DEF Decrypt, Authentic, backupVars
  <2>3. CASE CreateDatabase(d)
    BY <1>1, <2>3 DEF CreateDatabase, backupVars
  <2>4. CASE CreateOutrun(d)
    BY <1>1, <2>4 DEF CreateOutrun, backupVars
  <2>5. CASE Restore(d) \/ Verify(d)
    BY <1>1, <2>5 DEF Restore, Verify, backupVars
  <2>6. CASE DThrows(d) \/ DCrash(d)
    BY <1>1, <2>6 DEF DThrows, DCrash, backupVars
  <2>7. CASE Finish(d)
    BY <1>1, <2>7 DEF Finish, Drops, backupVars
  <2> QED BY <2>1, <2>2, <2>3, <2>4, <2>5, <2>6, <2>7 DEF DrillStep
<1> QED BY <1>1, <1>2

\* Every step of the commands, of storage and of the operator keeps the
\* invariant.
LEMMA RecoveryStep == RecoveryInv /\ [RecoveryNext]_recoveryVars => RecoveryInv'
<1> SUFFICES ASSUME RecoveryInv, [RecoveryNext]_recoveryVars PROVE RecoveryInv'
  OBVIOUS
<1>1. CASE LateStep
  BY <1>1 DEF LateStep, LateDrop, backupVars, RecoveryInv, RecoveryTypeOK,
     FilesShape, DrillShape
<1>2. CASE UNCHANGED recoveryVars
  BY <1>2 DEF recoveryVars, RecoveryInv, RecoveryTypeOK, FilesShape, DrillShape
<1> QED BY <1>1, <1>2, BackupKeeps, DrillKeeps DEF RecoveryNext

-------------------------------------------------------------------------------

\* "Treat a backup as committed only when both files exist": wherever the
\* backup command failed or crashed, a manifest is complete and has its
\* artifact, and a published artifact was written to its end.
THEOREM PublishedIsWholeCorrect == RecoverySpec => []PublishedIsWhole
<1>1. RecoveryInv => PublishedIsWhole
  BY DEF RecoveryInv, FilesShape, PublishedIsWhole
<1> QED BY <1>1, RecoveryStart, RecoveryStep, PTL DEF RecoverySpec

\* A drill restores, and reports success of, an authentic archive only,
\* whenever storage changes the artifact.
THEOREM RestoresAuthenticCorrect == RecoverySpec => []RestoresAuthentic
<1>1. RecoveryInv => RestoresAuthentic
  BY DEF RecoveryInv, DrillShape, RestoresAuthentic
<1> QED BY <1>1, RecoveryStart, RecoveryStep, PTL DEF RecoverySpec

\* A drill that has created the database and is not over has it to itself,
\* however many drills use its name.
THEOREM HasItsDatabaseCorrect == RecoverySpec => []HasItsDatabase
<1>1. RecoveryInv => HasItsDatabase
  BY DEF RecoveryInv, DrillShape, HasItsDatabase
<1> QED BY <1>1, RecoveryStart, RecoveryStep, PTL DEF RecoverySpec

\* The variables keep their types.
THEOREM RecoveryTypeCorrect == RecoverySpec => []RecoveryTypeOK
<1>1. RecoveryInv => RecoveryTypeOK
  BY DEF RecoveryInv
<1> QED BY <1>1, RecoveryStart, RecoveryStep, PTL DEF RecoverySpec
===============================================================================
