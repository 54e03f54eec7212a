---------------------------- MODULE DaemonProofs ----------------------------
(***************************************************************************)
(* Theorems about Daemon and about StateDir, the directory that the daemon *)
(* has prepared before it starts.                                          *)
(*                                                                         *)
(* Daemon: the table of tasks always names exactly the goroutines that     *)
(* were not told to stop, none of them has ended unless the process is     *)
(* ending, a process ends with status 0 only after a signal, and a log     *)
(* list that went stale does not go unnoticed.                             *)
(*                                                                         *)
(* StateDir: a migration loses no position, and monitors start in a        *)
(* prepared directory only.  The inductive invariant says, for each point  *)
(* of the preparation, which version the directory has and which logs may  *)
(* still have a position in the old files.                                 *)
(***************************************************************************)
EXTENDS Daemon, StateDir, FiniteSetTheorems, SequenceTheorems, TLAPS

Url == {list[l] : list \in Lists, l \in LogID}
Task == [log : LogID, url : Url, stopped : BOOLEAN, returned : BOOLEAN]

\* The daemon and the server.
TypeInv ==
  /\ now \in 0..MaxTime /\ served \in Lists
  /\ dpc \in {"prepare", "select", "returned"}
  /\ logsLoadedAt \in 0..MaxTime /\ logListToken \in Lists \cup {NoToken}
  /\ groupErr \in {"nil", "canceled", "error"} /\ exit \in {"running", "0", "1"}

\* The table of tasks and the goroutines.
TaskInv ==
  /\ goroutines \in Seq(Task) /\ DOMAIN tasks \subseteq LogID
  /\ lastList # NoList => DOMAIN tasks = DOMAIN lastList
  /\ \A l \in DOMAIN tasks :
       tasks[l] \in 1..Len(goroutines) /\ goroutines[tasks[l]].log = l
       /\ ~goroutines[tasks[l]].stopped
  /\ \A t \in 1..Len(goroutines) :
       ~goroutines[t].stopped => \E l \in DOMAIN tasks : tasks[l] = t

\* A goroutine ends because it was told to, or everything ends.
EndInv == ~Done => \A t \in 1..Len(goroutines) : goroutines[t].returned => goroutines[t].stopped

\* How the error of the group and the exit status come about.
GroupInv ==
  /\ groupErr = "canceled" => signalled
  /\ dpc = "returned" => groupErr # "nil"
  /\ exit = "0" => signalled

IInv == TypeInv /\ TaskInv /\ EndInv /\ GroupInv

\* What \o does with a sequence and a function on 1..n.
LEMMA Appended ==
  ASSUME NEW S, NEW s \in Seq(S), NEW n \in Nat, NEW f \in [1..n -> S]
  PROVE  /\ s \o f \in Seq(S) /\ Len(s \o f) = Len(s) + n
         /\ \A i \in 1..Len(s) : (s \o f)[i] = s[i]
         /\ \A i \in 1..n : (s \o f)[Len(s) + i] = f[i]
<1>1. f \in Seq(S) /\ Len(f) = n
  BY SeqDef
<1> QED BY <1>1

\* The invariant holds when the process is started.
LEMMA InitIInv == Init => IInv
<1> SUFFICES ASSUME Init PROVE IInv
  OBVIOUS
<1>1. TypeInv /\ GroupInv
  BY DaemonAssumption DEF Init, TypeInv, GroupInv
<1>2. TaskInv /\ EndInv
  BY DEF Init, TaskInv, EndInv
<1> QED BY <1>1, <1>2 DEF IInv

\* Loading a list keeps the table of tasks right (loadLogList).
LEMMA StartTasksKeeps ==
  ASSUME TaskInv, EndInv, NEW list \in Lists, StartTasks(list), lastList' = list,
         UNCHANGED <<groupErr, signalled>>
  PROVE  TaskInv' /\ EndInv'
<1> DEFINE A == Added(list)
           c == Cardinality(A)
           n == Len(goroutines)
           stopped == StopTasks(goroutines, list)
<1>1. c \in Nat /\ A \subseteq LogID /\ n \in Nat
  <2>1. A \subseteq LogID /\ IsFiniteSet(LogID)
    BY DaemonAssumption DEF Added
  <2> QED BY <2>1, FS_Subset, FS_CardinalityType DEF TaskInv
<1>2. PICK order \in [1..c -> A], index \in [A -> 1..c] :
        /\ \A l \in A : order[index[l]] = l
        /\ \A i \in 1..c : index[order[i]] = i
        /\ goroutines' = stopped \o [i \in 1..c |-> NewTask(order[i], list)]
        /\ tasks' = [l \in DOMAIN list |-> IF l \in DOMAIN tasks THEN tasks[l] ELSE n + index[l]]
  BY DEF StartTasks
<1> DEFINE new == [i \in 1..c |-> NewTask(order[i], list)]
<1>3. /\ stopped \in Seq(Task) /\ Len(stopped) = n
      /\ \A t \in 1..n : stopped[t] = IF t \in Removed(list) THEN [goroutines[t] EXCEPT !.stopped = TRUE]
                                      ELSE goroutines[t]
  <2>1. /\ DOMAIN goroutines = 1..n /\ \A t \in 1..n : goroutines[t] \in Task
    BY DEF TaskInv
  <2>2. \A t \in 1..n : [goroutines[t] EXCEPT !.stopped = TRUE] \in Task
    BY <2>1 DEF Task
  <2>3. stopped \in [1..n -> Task]
    BY <2>1, <2>2 DEF StopTasks
  <2>4. stopped \in Seq(Task) /\ Len(stopped) = n
    BY <1>1, <2>3, SeqDef
  <2> QED BY <2>1, <2>4 DEF StopTasks
<1>4. \A i \in 1..c : NewTask(order[i], list) \in Task
  <2>1. \A l \in A : list[l] \in Url /\ l \in LogID
    BY <1>1 DEF Url
  <2> QED BY <2>1 DEF NewTask, Task
<1>5. new \in [1..c -> Task]
  BY <1>4
<1> HIDE DEF new, stopped, c, n, A
<1>6. /\ goroutines' \in Seq(Task) /\ Len(goroutines') = n + c
      /\ \A t \in 1..n : goroutines'[t] = stopped[t]
      /\ \A i \in 1..c : goroutines'[n + i] = new[i]
  BY <1>1, <1>2, <1>3, <1>5, Appended DEF new
<1>7. \A i \in 1..c : new[i].log = order[i] /\ ~new[i].stopped /\ ~new[i].returned
  BY DEF new, NewTask
<1>8. /\ DOMAIN tasks' = DOMAIN list /\ DOMAIN list \subseteq LogID
      /\ A = DOMAIN list \ DOMAIN tasks
      /\ \A l \in DOMAIN list \cap DOMAIN tasks : tasks'[l] = tasks[l]
      /\ \A l \in A : tasks'[l] = n + index[l]
  BY <1>2, DaemonAssumption DEF Added, A
<1>9. \A l \in DOMAIN list \cap DOMAIN tasks : tasks[l] \notin Removed(list)
  BY DEF TaskInv, Removed
<1>10. ASSUME NEW l \in DOMAIN list
       PROVE  /\ tasks'[l] \in 1..Len(goroutines') /\ goroutines'[tasks'[l]].log = l
              /\ ~goroutines'[tasks'[l]].stopped
  <2>1. CASE l \in DOMAIN tasks
    <3>1. tasks[l] \in 1..n /\ goroutines[tasks[l]].log = l /\ ~goroutines[tasks[l]].stopped
      BY <2>1 DEF TaskInv, n
    <3>2. tasks'[l] = tasks[l] /\ goroutines'[tasks[l]] = goroutines[tasks[l]]
      BY <1>3, <1>6, <1>8, <1>9, <2>1, <3>1
    <3> QED BY <1>1, <1>6, <3>1, <3>2
  <2>2. CASE l \in A
    <3>1. index[l] \in 1..c /\ tasks'[l] = n + index[l] /\ order[index[l]] = l
      BY <1>2, <1>8, <2>2
    <3>2. goroutines'[n + index[l]] = new[index[l]] /\ n + index[l] \in 1..Len(goroutines')
      BY <1>1, <1>6, <3>1
    <3>3. new[index[l]].log = l /\ ~new[index[l]].stopped
      BY <1>7, <3>1
    <3> QED BY <3>1, <3>2, <3>3
  <2> QED BY <1>8, <2>1, <2>2
<1>11. ASSUME NEW t \in 1..Len(goroutines'), ~goroutines'[t].stopped
       PROVE  \E l \in DOMAIN list : tasks'[l] = t
  <2>1. CASE t \in 1..n
    <3>1. t \notin Removed(list) /\ ~goroutines[t].stopped
      <4>1. goroutines'[t] = stopped[t] /\ goroutines[t] \in Task
        BY <1>6, <2>1 DEF TaskInv, n
      <4> QED BY <1>3, <1>11, <2>1, <4>1 DEF Task
    <3>2. PICK l \in DOMAIN tasks : tasks[l] = t
      BY <2>1, <3>1 DEF TaskInv, n
    <3> QED BY <1>8, <3>1, <3>2 DEF Removed
  <2>2. CASE t \notin 1..n
    <3>1. PICK i \in 1..c : t = n + i
      <4>1. t - n \in 1..c /\ t = n + (t - n)
        BY <1>1, <1>6, <2>2
      <4> QED BY <4>1
    <3>2. order[i] \in A /\ index[order[i]] = i
      BY <1>2
    <3> QED BY <1>8, <3>1, <3>2
  <2> QED BY <2>1, <2>2
<1>12. ASSUME ~Done, NEW t \in 1..Len(goroutines'), goroutines'[t].returned
       PROVE  goroutines'[t].stopped
  <2>1. CASE t \in 1..n
    <3>1. goroutines'[t] = stopped[t] /\ goroutines[t] \in Task
      BY <1>6, <2>1 DEF TaskInv, n
    <3>2. goroutines[t].returned => goroutines[t].stopped
      BY <1>12, <2>1 DEF EndInv, n
    <3> QED BY <1>3, <1>12, <2>1, <3>1, <3>2 DEF Task
  <2>2. CASE t \notin 1..n
    <3>1. t - n \in 1..c /\ t = n + (t - n)
      BY <1>1, <1>6, <2>2
    <3> QED BY <1>6, <1>7, <1>12, <3>1
  <2> QED BY <2>1, <2>2
<1> QED BY <1>6, <1>8, <1>10, <1>11, <1>12 DEF TaskInv, EndInv, Done

\* A step that starts and ends no goroutine keeps what is known of them.
LEMMA TasksUnchanged ==
  ASSUME TaskInv, EndInv, UNCHANGED <<goroutines, tasks, lastList>>, Done => Done'
  PROVE  TaskInv' /\ EndInv'
  BY DEF TaskInv, EndInv

\* A task that returns does so because it was stopped, or ends the group.
LEMMA TaskReturnsKeeps ==
  ASSUME TaskInv, EndInv, TypeInv, NEW t \in DOMAIN goroutines, NEW err, TaskReturns(t, err),
         err \in {"nil", "error"}, err = "nil" => TaskDone(t)
  PROVE  TaskInv' /\ EndInv'
<1>1. /\ goroutines' = [goroutines EXCEPT ![t].returned = TRUE] /\ UNCHANGED <<tasks, lastList, signalled>>
      /\ groupErr' = IF groupErr = "nil" THEN err ELSE groupErr
  BY DEF TaskReturns, Returns, daemonVars, listVars
<1>2. t \in 1..Len(goroutines) /\ goroutines[t] \in Task
  BY DEF TaskInv
<1>3. [goroutines[t] EXCEPT !.returned = TRUE] \in Task
  BY <1>2 DEF Task
<1>4. goroutines' \in Seq(Task) /\ Len(goroutines') = Len(goroutines)
  BY <1>1, <1>2, <1>3 DEF TaskInv
<1>5. \A u \in 1..Len(goroutines) : /\ goroutines'[u].log = goroutines[u].log
                                    /\ goroutines'[u].stopped = goroutines[u].stopped
                                    /\ u # t => goroutines'[u] = goroutines[u]
  <2>1. \A u \in 1..Len(goroutines) : goroutines[u] \in Task
    BY DEF TaskInv
  <2> QED BY <1>1, <1>2, <2>1 DEF Task, TaskInv
<1>6. TaskInv'
  BY <1>1, <1>4, <1>5 DEF TaskInv
<1>7. ~Done' => ~Done /\ goroutines[t].stopped
  BY <1>1 DEF Done, TaskDone
<1>8. EndInv'
  BY <1>2, <1>4, <1>5, <1>7 DEF EndInv
<1> QED BY <1>6, <1>8

\* Every step of the daemon, its tasks and its surroundings keeps the invariant.
LEMMA NextIInv == IInv /\ [Next]_vars => IInv'
<1> SUFFICES ASSUME IInv, [Next]_vars PROVE IInv'
  OBVIOUS
<1> USE DEF IInv, daemonVars, groupVars, listVars
<1>1. CASE Start
  <2>1. TaskInv' /\ EndInv'
    BY <1>1, StartTasksKeeps DEF Start, ListLoaded, TypeInv
  <2>2. TypeInv' /\ GroupInv'
    BY <1>1 DEF Start, ListLoaded, TypeInv, GroupInv
  <2> QED BY <2>1, <2>2
<1>2. CASE Reload
  <2>1. TaskInv' /\ EndInv'
    <3>1. CASE ListLoaded
      BY <1>2, <3>1, StartTasksKeeps DEF Reload, ListLoaded, TypeInv
    <3>2. CASE ListNotModified \/ ListFails
      BY <1>2, <3>2, TasksUnchanged DEF Reload, ListNotModified, ListFails, Done
    <3> QED BY <1>2, <3>1, <3>2 DEF Reload
  <2>2. TypeInv' /\ GroupInv'
    BY <1>2 DEF Reload, ListLoaded, ListNotModified, ListFails, TypeInv, GroupInv
  <2> QED BY <2>1, <2>2
<1>3. ASSUME NEW err \in {"error", "canceled"}, Run(err), err = "canceled" => Done
      PROVE  IInv'
  <2>1. TaskInv' /\ EndInv'
    BY <1>3, TasksUnchanged DEF Run, Returns, Done
  <2>2. TypeInv' /\ GroupInv'
    BY <1>3 DEF Run, Returns, Done, TypeInv, GroupInv
  <2> QED BY <2>1, <2>2
<1>4. ASSUME NEW t \in DOMAIN goroutines, NEW err \in {"nil", "error"}, TaskReturns(t, err),
             err = "nil" => TaskDone(t)
      PROVE  IInv'
  <2>1. TaskInv' /\ EndInv'
    BY <1>4, TaskReturnsKeeps
  <2>2. TypeInv' /\ GroupInv'
    BY <1>4 DEF TaskReturns, Returns, TypeInv, GroupInv
  <2> QED BY <2>1, <2>2
<1>5. CASE HealthCheck \/ Exit \/ Signal \/ Tick \/ (\E list \in Lists : Publish(list)) \/ UNCHANGED vars
  <2>1. TaskInv' /\ EndInv'
    BY <1>5, TasksUnchanged DEF HealthCheck, Exit, Signal, Tick, Publish, vars, Done
  <2>2. TypeInv' /\ GroupInv'
    BY <1>5, DaemonAssumption DEF HealthCheck, Exit, Signal, Tick, Publish, vars, TypeInv, GroupInv
  <2> QED BY <2>1, <2>2
<1> QED
  BY <1>1, <1>2, <1>3, <1>4, <1>5 DEF Next, StartFails, HealthCheckFails, RunCancelled, TaskStops, TaskFails

\* The invariant holds throughout.
LEMMA AlwaysIInv == Spec => []IInv
  BY InitIInv, NextIInv, PTL DEF Spec

\* Type correctness of the daemon's state.
THEOREM DaemonTypes == Spec => []TypeOK
<1>1. IInv => TypeOK
  BY DEF IInv, TypeInv, TaskInv, TypeOK
<1> QED BY AlwaysIInv, <1>1, PTL

\* For any log lists, published and loaded in any order: exactly the listed logs
\* have a running task, and no log has two (loadLogList).
THEOREM OneTaskPerLog == Spec => []OneTaskPerListedLog
<1>1. IInv => OneTaskPerListedLog
  <2> SUFFICES ASSUME IInv PROVE OneTaskPerListedLog
    OBVIOUS
  <2>1. DOMAIN goroutines = 1..Len(goroutines)
    BY DEF IInv, TaskInv
  <2>2. Live = {tasks[l] : l \in DOMAIN tasks}
    BY <2>1 DEF IInv, TaskInv, Live
  <2> QED BY <2>2 DEF IInv, TaskInv, OneTaskPerListedLog
<1> QED BY AlwaysIInv, <1>1, PTL

\* No listed log loses its task while the process goes on (startTask).
THEOREM NoTaskDiesSilently == Spec => []NoSilentlyDeadTask
<1>1. IInv => NoSilentlyDeadTask
  BY DEF IInv, TaskInv, EndInv, NoSilentlyDeadTask
<1> QED BY AlwaysIInv, <1>1, PTL

\* The exit status 0 is not returned before a signal (Run, main).
THEOREM CleanExits == Spec => []CleanExitOnlyOnSignal
<1>1. IInv => CleanExitOnlyOnSignal
  BY DEF IInv, GroupInv, CleanExitOnlyOnSignal
<1> QED BY AlwaysIInv, <1>1, PTL

-----------------------------------------------------------------------------
\* The daemon's record of the last load is never later than the last answer.
LoadedInv == answeredAt \in Nat /\ logsLoadedAt <= answeredAt /\ answeredAt <= now

\* Every step keeps it: a failed reload, or a 304, does not count as a load.
LEMMA LoadedInvKept == IInv /\ LoadedInv /\ [Next]_vars => LoadedInv'
<1> SUFFICES ASSUME IInv, LoadedInv, [Next]_vars PROVE LoadedInv'
  OBVIOUS
<1>1. now \in 0..MaxTime /\ logsLoadedAt \in 0..MaxTime /\ MaxTime \in Nat
  BY DaemonAssumption DEF IInv, TypeInv
<1>2. CASE ListLoaded /\ now' = now
  BY <1>1, <1>2 DEF ListLoaded, LoadedInv
<1>3. CASE ListNotModified /\ now' = now
  BY <1>1, <1>3 DEF ListNotModified, LoadedInv
<1>4. CASE UNCHANGED <<logsLoadedAt, answeredAt>> /\ now' \in {now, now + 1}
  BY <1>1, <1>4 DEF LoadedInv
<1>5. \/ (ListLoaded \/ ListNotModified) /\ now' = now
      \/ UNCHANGED <<logsLoadedAt, answeredAt>> /\ now' \in {now, now + 1}
  BY DEF Next, Start, StartFails, Reload, ListFails, HealthCheck, HealthCheckFails, RunCancelled, Run,
     TaskStops, TaskFails, TaskReturns, Exit, Signal, Publish, Tick, vars, daemonVars, listVars
<1> QED BY <1>2, <1>3, <1>4, <1>5

\* A health check that does not complain was preceded by an answer with the list
\* within one interval, for any lengths of the intervals (healthCheck, daemon.go:53).
THEOREM StaleListIsNoticed == Spec => NoStaleListUnnoticed
<1> DEFINE Quiet == healthCheckAt' # healthCheckAt /\ dpc = "select" /\ ~staleAlarm'
                      => now - answeredAt < HealthCheckInterval
<1>1. Init => LoadedInv
  BY DaemonAssumption DEF Init, LoadedInv
<1>2. IInv /\ LoadedInv /\ [Next]_vars => [Quiet]_vars
  <2> SUFFICES ASSUME IInv, LoadedInv, Next, healthCheckAt' # healthCheckAt, dpc = "select", ~staleAlarm'
               PROVE  now - answeredAt < HealthCheckInterval
    OBVIOUS
  <2>1. HealthCheck
    BY DEF Next, Start, StartFails, Reload, HealthCheckFails, RunCancelled, Run,
       TaskStops, TaskFails, TaskReturns, Exit, Signal, Publish, Tick
  <2>2. ~(now - logsLoadedAt >= HealthCheckInterval)
    BY <2>1 DEF HealthCheck, ListIsStale
  <2>3. /\ now \in Nat /\ logsLoadedAt \in Nat /\ answeredAt \in Nat /\ HealthCheckInterval \in Nat
        /\ logsLoadedAt <= answeredAt
    BY DaemonAssumption DEF IInv, TypeInv, LoadedInv
  <2> QED BY <2>2, <2>3
<1> QED BY <1>1, <1>2, LoadedInvKept, AlwaysIInv, PTL DEF Spec, NoStaleListUnnoticed

-----------------------------------------------------------------------------
(* StateDir. *)

Migrating == {"logs", "writeState", "removeSTH", "removeTree"}

\* The version of the directory at each point of the preparation.
VersionInv ==
  /\ dirPC \in Migrating \cup {"checkLock"} => version = 1
  /\ dirPC = "writeVersion" => version \in {Missing, 1} /\ \A l \in Log : ~HasPosition(l)
  /\ dirPC \in {"removeOnce", "mkdirs", "running"} => version = 2
  /\ version # 1 => \A l \in Log : ~HasPosition(l)
  /\ dirPC = "running" => subdirs = Subdirs

\* What the migration of a log has done so far.
MigrationInv ==
  /\ dirPC \in Migrating => \A l \in Log \ todo : HasPosition(l) => l = cur /\ dirPC # "logs"
  /\ dirPC = "writeState" => HasPosition(cur)
  /\ dirPC \in {"removeSTH", "removeTree"} => state[cur] # None
  /\ dirPC = "removeTree" => ~sthFile[cur]
  /\ version = 1 => \A l \in Log : state[l] # None /\ HasPosition(l) => state[l] = treeFile[l]

DirInv == DirTypeOK /\ VersionInv /\ MigrationInv

\* The invariant holds of every directory a version of the program leaves behind.
LEMMA InitDirInv == DirInit => DirInv
<1> SUFFICES ASSUME DirInit PROVE DirInv
  OBVIOUS
<1>1. DirTypeOK
  BY StateDirAssumption DEF DirInit, NoFiles, DirTypeOK, Sizes, Subdirs, None, Missing
<1>2. VersionInv /\ MigrationInv
  BY DEF DirInit, NoFiles, VersionInv, MigrationInv, Migrating, HasPosition, None, Missing
<1> QED BY <1>1, <1>2 DEF DirInv

\* Every step of the preparation, also an interrupted one, keeps the invariant.
LEMMA NextDirInv == DirInv /\ [DirNext]_dirVars => DirInv'
<1> SUFFICES ASSUME DirInv, [DirNext]_dirVars PROVE DirInv'
  OBVIOUS
<1> USE DEF DirInv
<1>1. DirTypeOK'
  <2> USE StateDirAssumption DEF DirTypeOK, Goto, disk, v1files
  <2>1. CASE CheckVersion BY <2>1 DEF CheckVersion
  <2>2. CASE CheckLock BY <2>2 DEF CheckLock
  <2>3. CASE WriteState BY <2>3 DEF WriteState
  <2>4. CASE RemoveSTH BY <2>4 DEF RemoveSTH
  <2>5. CASE RemoveTree BY <2>5 DEF RemoveTree
  <2>6. CASE LogsMigrated BY <2>6 DEF LogsMigrated
  <2>7. CASE WriteVersion BY <2>7 DEF WriteVersion
  <2>8. CASE RemoveOnce BY <2>8 DEF RemoveOnce
  <2>9. CASE Ready BY <2>9 DEF Ready
  <2>10. ASSUME NEW l \in Log, MigrateLog(l) PROVE DirTypeOK' BY <2>10 DEF MigrateLog
  <2>11. ASSUME NEW d \in Subdirs, Mkdir(d) PROVE DirTypeOK' BY <2>11 DEF Mkdir
  <2>12. ASSUME NEW l \in Log, MonitorAdvances(l) PROVE DirTypeOK'
    BY <2>12 DEF MonitorAdvances, Sizes, None
  <2>13. CASE Crash BY <2>13 DEF Crash
  <2>14. CASE RemoveLock BY <2>14 DEF RemoveLock
  <2>15. CASE UNCHANGED dirVars BY <2>15 DEF dirVars
  <2> QED
    BY <2>1, <2>2, <2>3, <2>4, <2>5, <2>6, <2>7, <2>8, <2>9, <2>10, <2>11, <2>12, <2>13,
       <2>14, <2>15 DEF DirNext, Prepare
<1>2. VersionInv' /\ MigrationInv'
  <2> USE DEF DirTypeOK, VersionInv, MigrationInv, Migrating, HasPosition, Goto, disk, v1files, Missing
  <2>1. CASE CheckVersion BY <2>1 DEF CheckVersion, ReadVersion
  <2>2. CASE CheckLock BY <2>2 DEF CheckLock
  <2>3. CASE WriteState BY <2>3 DEF WriteState
  <2>4. CASE RemoveSTH BY <2>4 DEF RemoveSTH
  <2>5. CASE RemoveTree BY <2>5 DEF RemoveTree
  <2>6. CASE LogsMigrated BY <2>6 DEF LogsMigrated
  <2>7. CASE WriteVersion BY <2>7 DEF WriteVersion
  <2>8. CASE RemoveOnce BY <2>8 DEF RemoveOnce
  <2>9. CASE Ready BY <2>9 DEF Ready
  <2>10. ASSUME NEW l \in Log, MigrateLog(l) PROVE VersionInv' /\ MigrationInv'
    BY <2>10 DEF MigrateLog
  <2>11. ASSUME NEW d \in Subdirs, Mkdir(d) PROVE VersionInv' /\ MigrationInv'
    BY <2>11 DEF Mkdir
  <2>12. ASSUME NEW l \in Log, MonitorAdvances(l) PROVE VersionInv' /\ MigrationInv'
    BY <2>12 DEF MonitorAdvances
  <2>13. CASE Crash BY <2>13 DEF Crash
  <2>14. CASE RemoveLock BY <2>14 DEF RemoveLock
  <2>15. CASE UNCHANGED dirVars BY <2>15 DEF dirVars
  <2> QED
    BY <2>1, <2>2, <2>3, <2>4, <2>5, <2>6, <2>7, <2>8, <2>9, <2>10, <2>11, <2>12, <2>13,
       <2>14, <2>15 DEF DirNext, Prepare
<1> QED BY <1>1, <1>2

\* The invariant holds throughout.
LEMMA AlwaysDirInv == DirSpec => []DirInv
  BY InitDirInv, NextDirInv, PTL DEF DirSpec

\* For any number of logs and crashes: the monitors start only in a directory
\* that is completely migrated (prepareStateDir).
THEOREM OnlyPreparedDirectories == DirSpec => []RunsOnlyWhenPrepared
<1>1. DirInv => RunsOnlyWhenPrepared
  BY DEF DirInv, VersionInv, RunsOnlyWhenPrepared
<1> QED BY AlwaysDirInv, <1>1, PTL

\* No step of a process takes a log back.
LEMMA PositionGrows == DirInv /\ [DirNext]_dirVars => \A l \in Log : Position(l)' >= Position(l)
<1> SUFFICES ASSUME DirInv, [DirNext]_dirVars, NEW l \in Log PROVE Position(l)' >= Position(l)
  OBVIOUS
<1> USE StateDirAssumption DEF DirInv, DirTypeOK, Sizes, None
<1>1. Position(l) \in Int
  BY DEF Position
<1>2. CASE UNCHANGED <<version, sthFile, treeFile, state>>
  BY <1>1, <1>2 DEF Position, HasPosition
<1>3. CASE WriteState
  BY <1>3 DEF WriteState, v1files, Position, HasPosition, VersionInv, MigrationInv, Migrating
<1>4. CASE RemoveSTH
  BY <1>4 DEF RemoveSTH, Position, HasPosition, MigrationInv
<1>5. CASE RemoveTree
  BY <1>5 DEF RemoveTree, Position, HasPosition, MigrationInv
<1>6. CASE WriteVersion
  BY <1>6 DEF WriteVersion, v1files, Position, HasPosition, VersionInv
<1>7. ASSUME NEW m \in Log, MonitorAdvances(m) PROVE Position(l)' >= Position(l)
  BY <1>7 DEF MonitorAdvances, v1files, Position, HasPosition, VersionInv
<1>8. CASE CheckVersion \/ CheckLock \/ LogsMigrated \/ Ready \/ Crash \/ (\E m \in Log : MigrateLog(m))
           \/ UNCHANGED dirVars
  BY <1>2, <1>8 DEF CheckVersion, CheckLock, LogsMigrated, Ready, Crash, MigrateLog, disk, dirVars
<1>9. CASE RemoveOnce \/ RemoveLock \/ (\E d \in Subdirs : Mkdir(d))
  BY <1>2, <1>9 DEF RemoveOnce, RemoveLock, Mkdir, v1files
<1> QED
  BY <1>3, <1>4, <1>5, <1>6, <1>7, <1>8, <1>9 DEF DirNext, Prepare

\* For any number of logs and crashes: no migration, and no repeated one, takes a
\* log back to an earlier position (migrateLogStateDirV1).
THEOREM NoPositionIsLost == DirSpec => PositionNeverLost
  BY AlwaysDirInv, PositionGrows, PTL DEF DirSpec, PositionNeverLost
=============================================================================
