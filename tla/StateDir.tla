------------------------------ MODULE StateDir ------------------------------
(***************************************************************************)
(* The state directory at start-up: prepareStateDir (monitor/statedir.go), *)
(* with the migration of a version 1 directory.  Each action is one change *)
(* of the file system, the process may die or fail between any two of      *)
(* them, and the next process starts over with whatever it finds.  When    *)
(* the directory is ready, the monitors advance the positions in it.       *)
(*                                                                         *)
(* A tree, or the log state holding it, is its number of entries; an       *)
(* absent file is None.                                                    *)
(***************************************************************************)
EXTENDS Integers, FiniteSets

CONSTANTS
  Log,
  MaxPosition,   \* bound on the entries of a log
  MaxCrashes     \* bound on the number of processes that die or fail

ASSUME StateDirAssumption == MaxPosition \in Nat

None == -1
Missing == -1                              \* readVersion: no version file
Subdirs == {"certs", "logs", "healthchecks"}

VARIABLES
  version,    \* the version file
  evidence,   \* the directory of a version 0 layout exists
  lock, once, \* files of a version 1 layout
  sthFile, treeFile, \* sth.json (present or not) and tree.json of each log
  state,      \* state.json of each log
  subdirs,    \* the subdirectories that exist
  dirPC,      \* what the process is doing
  todo, cur,  \* log directories still to migrate, and the one in work
  crashes

disk == <<version, evidence, lock, once, sthFile, treeFile, state, subdirs>>
v1files == <<lock, once, sthFile, treeFile>>
dirVars == <<disk, dirPC, todo, cur, crashes>>

Sizes == 0..MaxPosition

NoFiles == treeFile = [l \in Log |-> None] /\ sthFile = [l \in Log |-> FALSE]

\* A new directory, or one left behind by some version of the program.
DirInit ==
  /\ dirPC = "start" /\ todo = {} /\ cur = "none" /\ crashes = 0
  /\ \/ /\ version = Missing /\ evidence \in BOOLEAN
        /\ lock = FALSE /\ once = FALSE /\ subdirs = {}
        /\ NoFiles /\ state = treeFile
     \/ /\ version = 1 /\ evidence = FALSE
        /\ lock \in BOOLEAN /\ once \in BOOLEAN /\ subdirs = {"certs", "logs"}
        /\ sthFile \in [Log -> BOOLEAN] /\ treeFile \in [Log -> Sizes \cup {None}]
        /\ state = [l \in Log |-> None]
     \/ /\ version \in {2, 3} /\ evidence = FALSE
        /\ lock = FALSE /\ once = FALSE /\ subdirs = Subdirs
        /\ NoFiles /\ state \in [Log -> Sizes \cup {None}]

Goto(s) == dirPC' = s /\ UNCHANGED <<todo, cur, crashes>>

-----------------------------------------------------------------------------
ReadVersion ==
  IF version = Missing THEN (IF evidence THEN 0 ELSE Missing) ELSE version

\* prepareStateDir decides by the version.
CheckVersion ==
  /\ dirPC = "start"
  /\ \/ ReadVersion = Missing /\ Goto("writeVersion")
     \/ ReadVersion \in {0, 3} /\ Goto("refused")
     \/ ReadVersion = 1 /\ Goto("checkLock")
     \/ ReadVersion = 2 /\ Goto("mkdirs")
  /\ UNCHANGED disk

\* migrateStateDirV1 looks for the lock and lists the log directories.
CheckLock ==
  /\ dirPC = "checkLock"
  /\ IF lock THEN Goto("refused") ELSE
       /\ dirPC' = "logs" /\ todo' = Log /\ UNCHANGED <<cur, crashes>>
  /\ UNCHANGED disk

HasPosition(l) == sthFile[l] /\ treeFile[l] # None

\* Mutant: a missing tree.json is an error.
Mut_MigrateLogNeedsTree(l) ==
  /\ dirPC = "logs" /\ l \in todo
  /\ todo' = todo \ {l}
  /\ IF HasPosition(l) THEN dirPC' = "writeState" /\ cur' = l
     ELSE dirPC' = (IF sthFile[l] THEN "refused" ELSE "logs") /\ UNCHANGED cur
  /\ UNCHANGED <<disk, crashes>>

\* migrateLogStateDirV1 up to the reading of its two files.
MigrateLog(l) ==
  /\ dirPC = "logs" /\ l \in todo
  /\ todo' = todo \ {l}
  /\ IF HasPosition(l) THEN dirPC' = "writeState" /\ cur' = l ELSE UNCHANGED <<dirPC, cur>>
  /\ UNCHANGED <<disk, crashes>>

\* Mutant: the old files are removed first.
Mut_WriteStateLast ==
  /\ dirPC = "writeState"
  /\ sthFile' = [sthFile EXCEPT ![cur] = FALSE]
  /\ Goto("removeSTH")
  /\ UNCHANGED <<version, evidence, lock, once, treeFile, state, subdirs>>

WriteState ==
  /\ dirPC = "writeState"
  /\ state' = [state EXCEPT ![cur] = treeFile[cur]]
  /\ Goto("removeSTH")
  /\ UNCHANGED <<version, evidence, v1files, subdirs>>

RemoveSTH ==
  /\ dirPC = "removeSTH"
  /\ sthFile' = [sthFile EXCEPT ![cur] = FALSE]
  /\ Goto("removeTree")
  /\ UNCHANGED <<version, evidence, lock, once, treeFile, state, subdirs>>

RemoveTree ==
  /\ dirPC = "removeTree"
  /\ treeFile' = [treeFile EXCEPT ![cur] = None]
  /\ Goto("logs")
  /\ UNCHANGED <<version, evidence, lock, once, sthFile, state, subdirs>>

LogsMigrated ==
  /\ dirPC = "logs" /\ todo = {} /\ Goto("writeVersion")
  /\ UNCHANGED disk

\* Mutant: the version stays what it was.
Mut_WriteVersionOld ==
  /\ dirPC = "writeVersion"
  /\ version' = IF version = Missing THEN 2 ELSE version
  /\ Goto("removeOnce")
  /\ UNCHANGED <<evidence, v1files, state, subdirs>>

\* writeVersion, for a new directory and at the end of the migration.
WriteVersion ==
  /\ dirPC = "writeVersion"
  /\ version' = 2
  /\ Goto(IF version = 1 THEN "removeOnce" ELSE "mkdirs")
  /\ UNCHANGED <<evidence, v1files, state, subdirs>>

RemoveOnce ==
  /\ dirPC = "removeOnce"
  /\ once' = FALSE
  /\ Goto("mkdirs")
  /\ UNCHANGED <<version, evidence, lock, sthFile, treeFile, state, subdirs>>

Mkdir(d) ==
  /\ dirPC = "mkdirs" /\ d \notin subdirs
  /\ subdirs' = subdirs \cup {d}
  /\ UNCHANGED <<version, evidence, v1files, state, dirPC, todo, cur, crashes>>

Ready ==
  /\ dirPC = "mkdirs" /\ subdirs = Subdirs /\ Goto("running")
  /\ UNCHANGED disk

-----------------------------------------------------------------------------
\* A monitor creates or advances the state.json of its log.
MonitorAdvances(l) ==
  /\ dirPC = "running" /\ state[l] < MaxPosition
  /\ state' = [state EXCEPT ![l] = @ + 1]
  /\ UNCHANGED <<version, evidence, v1files, subdirs, dirPC, todo, cur, crashes>>

\* The process dies, or a call of the file system fails, and it is started again.
Crash ==
  /\ dirPC # "start" /\ crashes < MaxCrashes
  /\ dirPC' = "start" /\ todo' = {} /\ cur' = "none" /\ crashes' = crashes + 1
  /\ UNCHANGED disk

\* The user follows the advice of the error message.
RemoveLock ==
  /\ dirPC = "refused" /\ lock
  /\ lock' = FALSE /\ dirPC' = "start"
  /\ UNCHANGED <<version, evidence, once, sthFile, treeFile, state, subdirs, todo, cur, crashes>>

Settled == (dirPC = "refused" /\ ~lock) \/ dirPC = "running"

Prepare ==
  \/ CheckVersion \/ CheckLock \/ WriteState \/ RemoveSTH \/ RemoveTree
  \/ LogsMigrated \/ WriteVersion \/ RemoveOnce \/ Ready
  \/ \E l \in Log : MigrateLog(l)
  \/ \E d \in Subdirs : Mkdir(d)

DirNext ==
  \/ Prepare
  \/ \E l \in Log : MonitorAdvances(l)
  \/ Crash \/ RemoveLock
  \/ Settled /\ UNCHANGED dirVars

DirSpec == DirInit /\ [][DirNext]_dirVars

\* The process runs, and the user does remove the lock.
DirFairSpec == DirSpec /\ WF_dirVars(Prepare) /\ WF_dirVars(RemoveLock)

-----------------------------------------------------------------------------
\* Type invariant.
DirTypeOK ==
  /\ version \in {Missing, 1, 2, 3}
  /\ {evidence, lock, once} \subseteq BOOLEAN
  /\ sthFile \in [Log -> BOOLEAN]
  /\ treeFile \in [Log -> Sizes \cup {None}] /\ state \in [Log -> Sizes \cup {None}]
  /\ subdirs \subseteq Subdirs /\ todo \subseteq Log
  /\ dirPC \in {"writeState", "removeSTH", "removeTree"} => cur \in Log

\* Where the directory says the monitor of a log has got to.
Position(l) ==
  IF state[l] # None THEN state[l]
  ELSE IF version = 1 /\ HasPosition(l) THEN treeFile[l] ELSE None

\* No step of a migration, and no second migration after a crash, takes a log
\* back to an earlier position: what an old version or a monitor has read is
\* never read or notified about again (statedir.go:79-95, 116).
PositionNeverLost == [][\A l \in Log : Position(l)' >= Position(l)]_dirVars

\* The monitors start only in a version 2 directory that has all of its
\* subdirectories and no position left in the old files, however often the
\* preparation was interrupted (statedir.go:103-118, 148-152).
RunsOnlyWhenPrepared ==
  dirPC = "running" =>
    /\ version = 2 /\ subdirs = Subdirs
    /\ \A l \in Log : ~HasPosition(l)

\* A crash at any point of the preparation leaves a directory that the next
\* process can prepare: only a layout of a version that is not supported is
\* refused for good (statedir.go:134-146).
PreparationCompletes ==
  (version = 3 \/ evidence) \/ <>(dirPC = "running")

=============================================================================
