------------------------------- MODULE Database -------------------------------
(***************************************************************************)
(* storage.Open: creating the database, refusing one that is too new,      *)
(* the backup before a migration, and the migrations, by processes that    *)
(* may stop anywhere and be started again, as another build perhaps.       *)
(* bbolt locks the file, so there is one process at a time; a transaction  *)
(* is one step, and so is each call on the file system.                    *)
(*                                                                         *)
(* This build expects schema 1 and takes no backup on the way there.  The  *)
(* code is written for the builds to come, so is the model: Build is any   *)
(* set of schema versions.  A migration a build does not define is one     *)
(* that fails.  Left out: the contents of the buckets, as no migration     *)
(* touches them; a computer that stops (only processes do); the backup     *)
(* that is downloaded, which changes nothing.                              *)
(*                                                                         *)
(* An operator marked "Mutant" is wrong on purpose and used by nothing: it *)
(* is a plausible bug that one of the properties must find.                *)
(***************************************************************************)
EXTENDS Integers

CONSTANTS
    Build,       \* CurrentSchemaVersion of the builds that are run
    MaxSecond,   \* bound on the time
    MaxFaults    \* bound on failing calls and stops

ASSUME BuildAssumption == Build \subseteq Nat /\ Build # {}
ASSUME BoundAssumption == MaxSecond \in Nat /\ MaxFaults \in Nat

VARIABLES
    now,       \* the wall clock, in the seconds a backup is named after
    schema,    \* the stored schema version; Missing without a database
    tmp,       \* per second, the file *.bak-<stamp>.tmp
    final,     \* per second, the file *.bak-<stamp>
    process    \* the running process

(* What was observed so far.                                               *)
VARIABLES
    before,    \* the schema the process found
    faults     \* faults so far

files == <<schema, tmp, final>>
ghosts == <<before, faults>>
vars == <<now, files, process, ghosts>>

Missing == -1
Second == 0..MaxSecond
NoFile == [schema |-> Missing, whole |-> FALSE]
File == [schema : Nat, whole : BOOLEAN] \cup {NoFile}

Process ==
    [pc : {"down", "init", "check", "backup", "write", "rename", "migrate",
           "serving"},
     build : Build \cup {0}, stamp : Second, version : Nat]
Down == [pc |-> "down", build |-> 0, stamp |-> 0, version |-> 0]

TypeOK ==
    /\ now \in Second
    /\ schema \in Nat \cup {Missing}
    /\ schema > 0 => \E build \in Build : schema <= build
    /\ tmp \in [Second -> File] /\ final \in [Second -> File]
    /\ process \in Process
    /\ before \in Nat \cup {Missing}
    /\ faults \in 0..MaxFaults

Init ==
    /\ now = 0
    /\ schema = Missing
    /\ tmp = [t \in Second |-> NoFile] /\ final = [t \in Second |-> NoFile]
    /\ process = Down
    /\ before = Missing /\ faults = 0

At(pc) == process.pc = pc
Goes(pc) == process' = [process EXCEPT !.pc = pc]
Fault == faults < MaxFaults /\ faults' = faults + 1

-------------------------------------------------------------------------------
(* Open                                                                    *)

Start(build) ==
    /\ At("down")
    /\ process' = [Down EXCEPT !.pc = "init", !.build = build]
    /\ before' = schema
    /\ UNCHANGED <<now, files, faults>>

(* Store.init: schema 0 unless there is one, in whatever database is       *)
(* found, also in one that is too new.                                     *)
InitBuckets ==
    /\ At("init")
    /\ schema' = IF schema = Missing THEN 0 ELSE schema
    /\ Goes("check")
    /\ UNCHANGED <<now, tmp, final, ghosts>>

Current == process.build

(* Mutant: any version but the expected one is migrated.                   *)
CheckEqualOnly ==
    /\ At("check")
    /\ process' =
         IF schema = Current THEN [process EXCEPT !.pc = "serving"]
         ELSE [process EXCEPT !.pc = IF schema > 0 THEN "backup" ELSE "migrate",
                              !.version = schema]
    /\ UNCHANGED <<now, files, ghosts>>

(* The head of Store.migrate.                                              *)
Check ==
    /\ At("check")
    /\ process' =
         CASE schema = Current -> [process EXCEPT !.pc = "serving"]
           [] schema > Current -> Down
           [] OTHER -> [process EXCEPT
                          !.pc = IF schema > 0 THEN "backup" ELSE "migrate",
                          !.version = schema]
    /\ UNCHANGED <<now, files, ghosts>>

-------------------------------------------------------------------------------
(* Store.Backup                                                            *)

(* Mutant: the temporary file is truncated if it is there, and whatever is *)
(* left in it counts as written.                                           *)
CreateTmpTruncating ==
    /\ At("backup")
    /\ tmp' = [tmp EXCEPT ![now] = [schema |-> schema, whole |-> FALSE]]
    /\ process' = [process EXCEPT !.pc = IF tmp[now] = NoFile THEN "write"
                                         ELSE "rename",
                                  !.stamp = now]
    /\ UNCHANGED <<now, schema, final, ghosts>>

(* Mutant: the name has no stamp, and a file of that name stays.           *)
CreateTmpUnstamped ==
    /\ At("backup")
    /\ IF tmp[0] = NoFile
       THEN /\ tmp' = [tmp EXCEPT ![0] = [schema |-> schema, whole |-> FALSE]]
            /\ process' = [process EXCEPT !.pc = "write", !.stamp = 0]
       ELSE process' = Down /\ UNCHANGED tmp
    /\ UNCHANGED <<now, schema, final, ghosts>>

(* O_EXCL refuses a name that is taken; the failure removes the file that  *)
(* took it.                                                                *)
CreateTmp ==
    /\ At("backup")
    /\ IF tmp[now] = NoFile
       THEN /\ tmp' = [tmp EXCEPT ![now] = [schema |-> schema, whole |-> FALSE]]
            /\ process' = [process EXCEPT !.pc = "write", !.stamp = now]
       ELSE /\ tmp' = [tmp EXCEPT ![now] = NoFile]
            /\ process' = Down
    /\ UNCHANGED <<now, schema, final, ghosts>>

(* WriteTo and Sync.                                                       *)
WriteTmp ==
    /\ At("write")
    /\ tmp' = [tmp EXCEPT ![process.stamp]
                           = [schema |-> schema, whole |-> TRUE]]
    /\ Goes("rename")
    /\ UNCHANGED <<now, schema, final, ghosts>>

(* A backup of the same second is replaced.                                *)
Rename ==
    /\ At("rename")
    /\ final' = [final EXCEPT ![process.stamp] = tmp[process.stamp]]
    /\ tmp' = [tmp EXCEPT ![process.stamp] = NoFile]
    /\ Goes("migrate")
    /\ UNCHANGED <<now, schema, ghosts>>

(* Mutant: a backup that fails does not keep the migration from going on.  *)
BackupFailsQuietly ==
    /\ At("write") \/ At("rename")
    /\ Fault
    /\ tmp' = [tmp EXCEPT ![process.stamp] = NoFile]
    /\ Goes("migrate")
    /\ UNCHANGED <<now, schema, final, before>>

(* Writing or renaming fails: no backup, no migration, no start.           *)
BackupFails ==
    /\ At("write") \/ At("rename")
    /\ Fault
    /\ tmp' = [tmp EXCEPT ![process.stamp] = NoFile]
    /\ process' = Down
    /\ UNCHANGED <<now, schema, final, before>>

-------------------------------------------------------------------------------
(* The loop of Store.migrate                                               *)

(* applyMigration to the next version, one transaction each.               *)
ApplyMigration ==
    /\ At("migrate") /\ process.version < Current
    /\ schema' = process.version + 1
    /\ process' = [process EXCEPT !.version = @ + 1]
    /\ UNCHANGED <<now, tmp, final, ghosts>>

MigrationFails ==
    /\ At("migrate") /\ process.version < Current
    /\ Fault
    /\ process' = Down
    /\ UNCHANGED <<now, files, before>>

Migrated ==
    /\ At("migrate") /\ process.version >= Current
    /\ Goes("serving")
    /\ UNCHANGED <<now, files, ghosts>>

Open == InitBuckets \/ Check \/ CreateTmp \/ WriteTmp \/ Rename
        \/ ApplyMigration \/ Migrated

-------------------------------------------------------------------------------
(* A process that serves is stopped; any process may be killed.            *)
Stop ==
    /\ At("serving")
    /\ process' = Down
    /\ UNCHANGED <<now, files, ghosts>>

Kill ==
    /\ ~At("down") /\ ~At("serving")
    /\ Fault
    /\ process' = Down
    /\ UNCHANGED <<now, files, before>>

Tick ==
    /\ now < MaxSecond
    /\ now' = now + 1
    /\ UNCHANGED <<files, process, ghosts>>

Next == \/ \E build \in Build : Start(build)
        \/ Open \/ BackupFails \/ MigrationFails \/ Stop \/ Kill \/ Tick

Spec == Init /\ [][Next]_vars

(* A process goes on, and one that is down is started again.               *)
FairSpec == Spec /\ WF_vars(Open) /\ WF_vars(\E build \in Build : Start(build))

-------------------------------------------------------------------------------
(* Correctness                                                             *)

(* "Take an atomic backup" (RELEASE.md:49): under its final name a backup  *)
(* is whole, wherever the process that made it was killed (storage.go:203).*)
BackupsAreWhole == \A t \in Second : final[t] # NoFile => final[t].whole

(* A database that held data and that this process has changed has a       *)
(* backup of what the process found (storage.go:141), however often a      *)
(* migration was cut short before.                                         *)
MigratedIsBackedUp ==
    ~At("down") /\ before > 0 /\ schema # before
        => \E t \in Second : final[t] = [schema |-> before, whole |-> TRUE]

(* "Refuse to downgrade if the on-disk schema is newer than the binary"    *)
(* (RELEASE.md:52): the version never falls, and what is served has the    *)
(* version the build expects.                                              *)
NeverDowngraded == [][schema' >= schema]_schema
ServesItsSchema == At("serving") => schema = Current

(* Whatever was left behind where a process was killed, starting the       *)
(* newest build again and again ends with a database that is served: a     *)
(* temporary file left by a killed backup refuses at most one start.       *)
Newest == CHOOSE b \in Build : \A c \in Build : c <= b
ServesAgain ==
    <>[](At("down") \/ Current = Newest) => []<>At("serving")
===============================================================================
