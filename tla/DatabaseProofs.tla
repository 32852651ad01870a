----------------------------- MODULE DatabaseProofs ----------------------------
(***************************************************************************)
(* What TLAPS proves of Database, for any set of builds, any times and any *)
(* number of faults.  The inductive invariant says where each process is   *)
(* with respect to what it found: until its migrations begin the database  *)
(* has the schema it had, and they begin with the backup under its name.   *)
(***************************************************************************)
EXTENDS Database, TLAPS

(* What a process knows of the schema, and has found.                      *)
SchemaKnown ==
    /\ At("init") => schema = before
    /\ At("check") => \/ schema = before /\ before # Missing
                      \/ schema = 0 /\ before = Missing
    /\ At("backup") \/ At("write") \/ At("rename") => schema = before
    /\ At("backup") \/ At("write") \/ At("rename") \/ At("migrate")
         => process.version = schema /\ process.version <= Current

(* The file that is being written.                                         *)
TmpFollows ==
    /\ At("write") => tmp[process.stamp] = [schema |-> schema, whole |-> FALSE]
    /\ At("rename") => tmp[process.stamp] = [schema |-> schema, whole |-> TRUE]

BackedUp == \E t \in Second : final[t] = [schema |-> before, whole |-> TRUE]

(* A process that found data migrates it with its backup made, and serves  *)
(* it as it was found or with the backup made.                             *)
BackupFirst ==
    /\ At("migrate") /\ before > 0 => BackedUp
    /\ At("serving") /\ before > 0 /\ schema # before => BackedUp

Inv == SchemaKnown /\ TmpFollows /\ BackupFirst /\ BackupsAreWhole
       /\ ServesItsSchema

USE DEF At, Goes, Fault, files, ghosts, Missing, Current

FilesOK == tmp \in [Second -> File] /\ final \in [Second -> File]
ValuesOK ==
    /\ now \in Second
    /\ schema \in Nat \cup {Missing}
    /\ schema > 0 => \E build \in Build : schema <= build
    /\ before \in Nat \cup {Missing}
    /\ faults \in 0..MaxFaults

(* The invariant holds at the start.                                       *)
LEMMA InitInv == Init => TypeOK /\ Inv
  BY BuildAssumption, BoundAssumption
  DEF Init, TypeOK, Inv, SchemaKnown, TmpFollows, BackupFirst,
      BackupsAreWhole, ServesItsSchema, Process, Down, Second, File, NoFile

(* The records File holds: what a file system call makes of one is in it.  *)
LEMMA WrittenFiles ==
    /\ NoFile \in File
    /\ \A s \in Nat, w \in BOOLEAN : [schema |-> s, whole |-> w] \in File
    /\ NoFile.whole = FALSE /\ NoFile.schema = -1
  BY DEF File, NoFile

(* Every step keeps the invariant.                                         *)
LEMMA InvStep == TypeOK /\ Inv /\ [Next]_vars => TypeOK' /\ Inv'
<1> SUFFICES ASSUME TypeOK, FilesOK, ValuesOK, SchemaKnown, TmpFollows, BackupFirst,
                    BackupsAreWhole, ServesItsSchema, [Next]_vars
             PROVE  TypeOK' /\ Inv'
  BY DEF Inv, TypeOK, FilesOK, ValuesOK
<1> USE BuildAssumption, BoundAssumption, WrittenFiles
        DEF TypeOK, Inv, SchemaKnown, TmpFollows, BackupFirst, BackedUp,
            BackupsAreWhole, ServesItsSchema, Down, Second, FilesOK, ValuesOK
<1>1. ASSUME NEW build \in Build, Start(build)
     PROVE  TypeOK' /\ Inv'
  <2>1. TypeOK'
    <3>1. ValuesOK'
      BY <1>1 DEF Start
    <3>2. process' \in Process
      <4>1. process' = [pc |-> "init", build |-> build, stamp |-> 0,
                        version |-> 0]
        BY <1>1 DEF Start
      <4>2. QED
        BY <4>1 DEF Process
    <3>3. FilesOK'
      BY <1>1 DEF Start
    <3>4. QED
      BY <3>1, <3>2, <3>3
  <2>2. SchemaKnown' /\ ServesItsSchema'
    BY <1>1 DEF Start, Process
  <2>3. TmpFollows' /\ BackupsAreWhole'
    BY <1>1 DEF Start, Process
  <2>4. BackupFirst'
    BY <1>1 DEF Start, Process
  <2>5. QED
    BY <2>1, <2>2, <2>3, <2>4 DEF Inv
<1>2. CASE InitBuckets
  <2>1. TypeOK'
    <3>1. ValuesOK'
      BY <1>2 DEF InitBuckets
    <3>2. process' \in Process
      BY <1>2 DEF InitBuckets, Process
    <3>3. FilesOK'
      BY <1>2 DEF InitBuckets
    <3>4. QED
      BY <3>1, <3>2, <3>3
  <2>2. SchemaKnown' /\ ServesItsSchema'
    BY <1>2 DEF InitBuckets, Process
  <2>3. TmpFollows' /\ BackupsAreWhole'
    BY <1>2 DEF InitBuckets, Process
  <2>4. BackupFirst'
    BY <1>2 DEF InitBuckets, Process
  <2>5. QED
    BY <2>1, <2>2, <2>3, <2>4 DEF Inv
<1>3. CASE Check
  <2>1. CASE schema = Current
    <3>1. process' = [process EXCEPT !.pc = "serving"]
      BY <1>3, <2>1 DEF Check
    <3>2. TypeOK'
      BY <1>3, <3>1 DEF Check, Process
    <3>3. Inv'
      BY <1>3, <2>1, <3>1 DEF Check, Process, Inv
    <3>4. QED
      BY <3>2, <3>3
  <2>2. CASE schema > Current
    <3>1. process' = Down
      BY <1>3, <2>2 DEF Check, Process
    <3>2. TypeOK'
      BY <1>3, <3>1 DEF Check, Process
    <3>3. SchemaKnown' /\ TmpFollows' /\ ServesItsSchema'
      BY <3>1 DEF Process
    <3>4. BackupFirst' /\ BackupsAreWhole'
      BY <1>3, <3>1 DEF Check
    <3>5. QED
      BY <3>2, <3>3, <3>4 DEF Inv
  <2>3. CASE schema < Current
    <3>1. schema \in Nat /\ Current \in Nat
      BY <1>3 DEF Check, Process
    <3>2. process' = [process EXCEPT
                        !.pc = IF schema > 0 THEN "backup" ELSE "migrate",
                        !.version = schema]
      BY <1>3, <2>3, <3>1 DEF Check
    <3>3. TypeOK'
      BY <1>3, <3>1, <3>2 DEF Check, Process
    <3>4. SchemaKnown' /\ ServesItsSchema'
      BY <1>3, <2>3, <3>1, <3>2 DEF Check, Process
    <3>5. TmpFollows' /\ BackupsAreWhole'
      BY <1>3, <3>2 DEF Check, Process
    <3>6. BackupFirst'
      BY <1>3, <3>1, <3>2 DEF Check, Process
    <3>7. QED
      BY <3>3, <3>4, <3>5, <3>6 DEF Inv
  <2>4. QED
    BY <1>3, <2>1, <2>2, <2>3 DEF Check, Process
<1>4. CASE CreateTmp
  <2>1. schema \in Nat /\ now \in Second
    BY <1>4 DEF CreateTmp, Process
  <2>2. CASE tmp[now] = NoFile
    <3>1. /\ tmp' = [tmp EXCEPT ![now] = [schema |-> schema, whole |-> FALSE]]
          /\ process' = [process EXCEPT !.pc = "write", !.stamp = now]
      BY <1>4, <2>2 DEF CreateTmp
    <3>2. process' \in Process
      BY <2>1, <3>1 DEF Process
    <3>3. tmp' \in [Second -> File]
      BY <2>1, <3>1
    <3>4. tmp'[now] = [schema |-> schema, whole |-> FALSE]
      BY <2>1, <3>1
    <3>5. Inv'
      BY <1>4, <3>1, <3>4 DEF CreateTmp, Process, Inv
    <3>6. QED
      BY <1>4, <3>2, <3>3, <3>5 DEF CreateTmp
  <2>3. CASE tmp[now] # NoFile
    <3>1. tmp' = [tmp EXCEPT ![now] = NoFile] /\ process' = Down
      BY <1>4, <2>3 DEF CreateTmp
    <3>2. tmp' \in [Second -> File]
      BY <2>1, <3>1
    <3>3. TypeOK'
      BY <1>4, <3>1, <3>2 DEF CreateTmp, Process
    <3>4. Inv'
      BY <1>4, <3>1 DEF CreateTmp, Inv
    <3>5. QED
      BY <3>3, <3>4
  <2>4. QED
    BY <2>2, <2>3
<1>5. CASE WriteTmp
  <2>1. /\ process.stamp \in Second /\ schema \in Nat
        /\ tmp[process.stamp] = [schema |-> schema, whole |-> FALSE]
    BY <1>5 DEF WriteTmp, Process
  <2>2. tmp' = [tmp EXCEPT ![process.stamp]
                             = [schema |-> schema, whole |-> TRUE]]
    BY <1>5 DEF WriteTmp
  <2>3. tmp' \in [Second -> File]
    BY <2>1, <2>2
  <2>4. process' = [process EXCEPT !.pc = "rename"] /\ process' \in Process
    BY <1>5 DEF WriteTmp, Process
  <2>5. Inv'
    BY <1>5, <2>1, <2>2, <2>4 DEF WriteTmp, Process, Inv
  <2>6. QED
    BY <1>5, <2>3, <2>4, <2>5 DEF WriteTmp
<1>6. CASE Rename
  <2>1. TypeOK'
    <3>1. ValuesOK'
      BY <1>6 DEF Rename
    <3>2. process' \in Process
      BY <1>6 DEF Rename, Process
    <3>3. FilesOK'
      BY <1>6 DEF Rename
    <3>4. QED
      BY <3>1, <3>2, <3>3
  <2>2. SchemaKnown' /\ ServesItsSchema'
    BY <1>6 DEF Rename, Process
  <2>3. TmpFollows' /\ BackupsAreWhole'
    BY <1>6 DEF Rename, Process
  <2>4. BackupFirst'
    BY <1>6 DEF Rename, Process
  <2>5. QED
    BY <2>1, <2>2, <2>3, <2>4 DEF Inv
<1>7. CASE BackupFails
  <2>1. TypeOK'
    <3>1. ValuesOK'
      BY <1>7 DEF BackupFails
    <3>2. process' \in Process
      BY <1>7 DEF BackupFails, Process
    <3>3. FilesOK'
      BY <1>7 DEF BackupFails
    <3>4. QED
      BY <3>1, <3>2, <3>3
  <2>2. SchemaKnown' /\ ServesItsSchema'
    BY <1>7 DEF BackupFails, Process
  <2>3. TmpFollows' /\ BackupsAreWhole'
    BY <1>7 DEF BackupFails, Process
  <2>4. BackupFirst'
    BY <1>7 DEF BackupFails, Process
  <2>5. QED
    BY <2>1, <2>2, <2>3, <2>4 DEF Inv
<1>8. CASE ApplyMigration
  <2>1. /\ process.version \in Nat /\ Current \in Build \cup {0}
        /\ process.version < Current /\ process.version = schema
    BY <1>8 DEF ApplyMigration, Process
  <2>2. /\ Current \in Build /\ schema' = process.version + 1
        /\ schema' \in Nat /\ schema' <= Current
    BY <1>8, <2>1 DEF ApplyMigration
  <2>3. process' = [process EXCEPT !.version = schema']
    BY <1>8, <2>2 DEF ApplyMigration
  <2>4. ValuesOK' /\ process' \in Process
    BY <1>8, <2>2, <2>3 DEF ApplyMigration, Process
  <2>5. Inv'
    BY <1>8, <2>1, <2>2, <2>3 DEF ApplyMigration, Process, Inv
  <2>6. QED
    BY <1>8, <2>4, <2>5 DEF ApplyMigration
<1>9. CASE MigrationFails
  <2>1. TypeOK'
    <3>1. ValuesOK'
      BY <1>9 DEF MigrationFails
    <3>2. process' \in Process
      BY <1>9 DEF MigrationFails, Process
    <3>3. FilesOK'
      BY <1>9 DEF MigrationFails
    <3>4. QED
      BY <3>1, <3>2, <3>3
  <2>2. SchemaKnown' /\ ServesItsSchema'
    BY <1>9 DEF MigrationFails, Process
  <2>3. TmpFollows' /\ BackupsAreWhole'
    BY <1>9 DEF MigrationFails, Process
  <2>4. BackupFirst'
    BY <1>9 DEF MigrationFails, Process
  <2>5. QED
    BY <2>1, <2>2, <2>3, <2>4 DEF Inv
<1>10. CASE Migrated
  <2>1. TypeOK'
    <3>1. ValuesOK'
      BY <1>10 DEF Migrated
    <3>2. process' \in Process
      BY <1>10 DEF Migrated, Process
    <3>3. FilesOK'
      BY <1>10 DEF Migrated
    <3>4. QED
      BY <3>1, <3>2, <3>3
  <2>2. SchemaKnown' /\ ServesItsSchema'
    BY <1>10 DEF Migrated, Process
  <2>3. TmpFollows' /\ BackupsAreWhole'
    BY <1>10 DEF Migrated, Process
  <2>4. BackupFirst'
    BY <1>10 DEF Migrated, Process
  <2>5. QED
    BY <2>1, <2>2, <2>3, <2>4 DEF Inv
<1>11. CASE Stop
  <2>1. TypeOK'
    <3>1. ValuesOK'
      BY <1>11 DEF Stop
    <3>2. process' \in Process
      BY <1>11 DEF Stop, Process
    <3>3. FilesOK'
      BY <1>11 DEF Stop
    <3>4. QED
      BY <3>1, <3>2, <3>3
  <2>2. SchemaKnown' /\ ServesItsSchema'
    BY <1>11 DEF Stop, Process
  <2>3. TmpFollows' /\ BackupsAreWhole'
    BY <1>11 DEF Stop, Process
  <2>4. BackupFirst'
    BY <1>11 DEF Stop, Process
  <2>5. QED
    BY <2>1, <2>2, <2>3, <2>4 DEF Inv
<1>12. CASE Kill
  <2>1. TypeOK'
    <3>1. ValuesOK'
      BY <1>12 DEF Kill
    <3>2. process' \in Process
      BY <1>12 DEF Kill, Process
    <3>3. FilesOK'
      BY <1>12 DEF Kill
    <3>4. QED
      BY <3>1, <3>2, <3>3
  <2>2. SchemaKnown' /\ ServesItsSchema'
    BY <1>12 DEF Kill, Process
  <2>3. TmpFollows' /\ BackupsAreWhole'
    BY <1>12 DEF Kill, Process
  <2>4. BackupFirst'
    BY <1>12 DEF Kill, Process
  <2>5. QED
    BY <2>1, <2>2, <2>3, <2>4 DEF Inv
<1>13. CASE Tick
  <2>1. TypeOK'
    <3>1. ValuesOK'
      BY <1>13 DEF Tick
    <3>2. process' \in Process
      BY <1>13 DEF Tick, Process
    <3>3. FilesOK'
      BY <1>13 DEF Tick
    <3>4. QED
      BY <3>1, <3>2, <3>3
  <2>2. SchemaKnown' /\ ServesItsSchema'
    BY <1>13 DEF Tick, Process
  <2>3. TmpFollows' /\ BackupsAreWhole'
    BY <1>13 DEF Tick, Process
  <2>4. BackupFirst'
    BY <1>13 DEF Tick, Process
  <2>5. QED
    BY <2>1, <2>2, <2>3, <2>4 DEF Inv
<1>14. CASE UNCHANGED vars
  BY <1>14 DEF vars, ghosts
<1>15. QED
  BY <1>1, <1>2, <1>3, <1>4, <1>5, <1>6, <1>7, <1>8, <1>9, <1>10, <1>11, <1>12, <1>13, <1>14 DEF Next, Open

(* Every reachable state has the invariant.                                *)
THEOREM DatabaseInv == Spec => [](TypeOK /\ Inv)
<1>1. Init => TypeOK /\ Inv
  BY InitInv
<1>2. TypeOK /\ Inv /\ [Next]_vars => (TypeOK /\ Inv)'
  BY InvStep
<1>3. QED
  BY <1>1, <1>2, PTL DEF Spec

(* Every reachable state is well typed: in particular no process, however  *)
(* it was killed, leaves a schema above what some build expects.           *)
THEOREM DatabaseTypes == Spec => []TypeOK
  BY DatabaseInv, PTL

(* Under its final name a backup is whole (storage.go:203).                *)
THEOREM WholeBackups == Spec => []BackupsAreWhole
<1>1. Inv => BackupsAreWhole
  BY DEF Inv
<1>2. QED
  BY <1>1, DatabaseInv, PTL

(* A process serves the schema it expects, whatever it found.              *)
THEOREM ServedSchema == Spec => []ServesItsSchema
<1>1. Inv => ServesItsSchema
  BY DEF Inv
<1>2. QED
  BY <1>1, DatabaseInv, PTL

(* A process that found data and has changed its schema has made a whole   *)
(* backup of what it found (storage.go:141).                               *)
THEOREM BackedUpBeforeMigration == Spec => []MigratedIsBackedUp
<1>1. TypeOK /\ Inv => MigratedIsBackedUp
  <2> SUFFICES ASSUME TypeOK, Inv, ~At("down"), before > 0, schema # before
               PROVE  BackedUp
    BY DEF MigratedIsBackedUp, BackedUp
  <2>1. At("migrate") \/ At("serving")
    BY DEF TypeOK, Process, Inv, SchemaKnown
  <2>2. QED
    BY <2>1 DEF Inv, BackupFirst
<1>2. QED
  BY <1>1, DatabaseInv, PTL

(* No step of any build lowers the stored version (storage.go:134).        *)
THEOREM NoDowngrade == Spec => NeverDowngraded
<1>1. TypeOK /\ Inv /\ [Next]_vars => [schema' >= schema]_schema
  <2> SUFFICES ASSUME TypeOK, Inv, [Next]_vars PROVE schema' >= schema
    OBVIOUS
  <2>1. schema \in Int
    BY DEF TypeOK
  <2>2. CASE InitBuckets
    BY <2>1, <2>2 DEF InitBuckets, TypeOK
  <2>3. CASE ApplyMigration
    BY <2>1, <2>3 DEF ApplyMigration, TypeOK, Inv, SchemaKnown
  <2>4. CASE schema' = schema
    BY <2>1, <2>4
  <2>5. QED
    BY <2>2, <2>3, <2>4
    DEF Next, Open, Start, Check, CreateTmp, WriteTmp, Rename, Migrated,
        BackupFails, MigrationFails, Stop, Kill, Tick, vars
<1>2. QED
  BY <1>1, DatabaseInv, PTL DEF Spec, NeverDowngraded
===============================================================================
