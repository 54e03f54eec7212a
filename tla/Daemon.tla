------------------------------- MODULE Daemon -------------------------------
(***************************************************************************)
(* The daemon (monitor/daemon.go): it keeps one goroutine per log of the   *)
(* log list, reloads the list (monitor/loglist.go, loglist/load.go), and   *)
(* performs health checks; an errgroup ties the goroutines together.  Also *)
(* the exit status (cmd/certspotter/main.go:263-269).  What a log's        *)
(* goroutine does is in LogMonitor; here it only ends.  The errgroup and   *)
(* the web server with the log list are external.                          *)
(***************************************************************************)
EXTENDS Integers, Sequences, FiniteSets

CONSTANTS
  LogID,
  Lists,                \* the log lists: functions from sets of LogID to URLs
  HealthCheckInterval,
  ReloadIntervalMin, ReloadIntervalMax,
  MaxTime,              \* bound on the clock
  MaxTasks,             \* bound on the goroutines ever started
  NoToken, NoList

ASSUME DaemonAssumption ==
  /\ IsFiniteSet(LogID)
  /\ \A list \in Lists : DOMAIN list \subseteq LogID
  /\ NoToken \notin Lists /\ NoList \notin Lists
  /\ ReloadIntervalMin \in Nat \ {0} /\ ReloadIntervalMax \in Nat
  /\ ReloadIntervalMin <= ReloadIntervalMax
  /\ HealthCheckInterval \in Nat \ {0}
  /\ MaxTime \in Nat /\ MaxTasks \in Nat

VARIABLES
  now,
  served,         \* the log list the server has
  \* the daemon
  dpc,            \* control state of daemon.run
  tasks,          \* from LogID to an index of goroutines
  logsLoadedAt, logListToken,
  reloadAt, healthCheckAt,   \* when the two tickers fire next
  \* the errgroup
  goroutines,     \* every monitoring goroutine ever started
  groupErr,       \* the first error a goroutine returned
  signalled,      \* SIGTERM or SIGINT was received
  exit,           \* the exit status, "running" before
  \* history variables
  lastList,       \* the log list obtained last
  answeredAt,     \* when the server last confirmed or sent the log list
  staleAlarm      \* the last health check reported a stale log list

daemonVars == <<tasks, logsLoadedAt, logListToken, reloadAt>>
groupVars  == <<goroutines, groupErr>>
listVars   == <<lastList, answeredAt>>
vars == <<now, served, dpc, daemonVars, healthCheckAt, groupVars, signalled, exit,
          listVars, staleAlarm>>

Init ==
  /\ now = 0 /\ served \in Lists
  /\ dpc = "prepare" /\ tasks = <<>> /\ logsLoadedAt = 0 /\ logListToken = NoToken
  /\ reloadAt = 0 /\ healthCheckAt = 0
  /\ goroutines = <<>> /\ groupErr = "nil" /\ signalled = FALSE /\ exit = "running"
  /\ lastList = NoList /\ answeredAt = 0 /\ staleAlarm = FALSE

\* The context of the group: the signal's, and cancelled with the first error.
Done == signalled \/ groupErr # "nil"

\* A goroutine of the group returns err.
Returns(err) == groupErr' = IF groupErr = "nil" THEN err ELSE groupErr

\* Mutant: the contexts of the tasks do not derive from the group's.
Mut_TaskDoneOnlyIfStopped(t) == goroutines[t].stopped

\* The context of a task.
TaskDone(t) == Done \/ goroutines[t].stopped

-----------------------------------------------------------------------------
(* loadLogList. *)

Removed(list) == {tasks[l] : l \in DOMAIN tasks \ DOMAIN list}
Added(list) == DOMAIN list \ DOMAIN tasks

\* Mutant: tasks of removed logs are forgotten without being stopped.
Mut_StopNothing(gs, list) == gs

\* task.stop() for every log that is no longer listed.
StopTasks(gs, list) ==
  [t \in DOMAIN gs |-> IF t \in Removed(list) THEN [gs[t] EXCEPT !.stopped = TRUE] ELSE gs[t]]

NewTask(l, list) == [log |-> l, url |-> list[l], stopped |-> FALSE, returned |-> FALSE]

\* A goroutine for every log that has none, in the order of a map iteration.
StartTasks(list) ==
  LET n == Len(goroutines)
      c == Cardinality(Added(list))
  IN \E order \in [1..c -> Added(list)], index \in [Added(list) -> 1..c] :
       /\ \A l \in Added(list) : order[index[l]] = l
       /\ \A i \in 1..c : index[order[i]] = i
       /\ n + c <= MaxTasks
       /\ goroutines' = StopTasks(goroutines, list) \o [i \in 1..c |-> NewTask(order[i], list)]
       /\ tasks' = [l \in DOMAIN list |-> IF l \in DOMAIN tasks THEN tasks[l] ELSE n + index[l]]

\* The server sends the list, with or without an ETag.
ListLoaded ==
  /\ StartTasks(served)
  /\ logsLoadedAt' = now
  /\ logListToken' \in {served, NoToken}
  /\ lastList' = served /\ answeredAt' = now

\* The token is still current: 304 Not Modified.
ListNotModified ==
  /\ logListToken = served
  /\ answeredAt' = now
  /\ UNCHANGED <<tasks, goroutines, logsLoadedAt, logListToken, lastList>>

-----------------------------------------------------------------------------
(* daemon.run. *)

Run(err) ==
  /\ dpc' = "returned"
  /\ Returns(err)
  /\ UNCHANGED <<now, served, daemonVars, healthCheckAt, goroutines, signalled, exit,
                 listVars, staleAlarm>>

\* Prepare, then the first load of the list.
Start ==
  /\ dpc = "prepare"
  /\ ListLoaded
  /\ dpc' = "select"
  /\ reloadAt' \in now + ReloadIntervalMin .. now + ReloadIntervalMax
  /\ healthCheckAt' = now + HealthCheckInterval
  /\ UNCHANGED <<now, served, groupErr, signalled, exit, staleAlarm>>

StartFails ==
  /\ dpc = "prepare"
  /\ \/ Run("error")
     \/ Done /\ Run("canceled")

\* Mutant: a failed reload counts as one.
Mut_ListFailsAsLoaded ==
  /\ logsLoadedAt' = now
  /\ UNCHANGED <<tasks, goroutines, logListToken, lastList, answeredAt>>

\* A failed reload is recorded and changes nothing.
ListFails == UNCHANGED <<tasks, goroutines, logsLoadedAt, logListToken, lastList, answeredAt>>

Reload ==
  /\ dpc = "select" /\ now >= reloadAt
  /\ \/ ListLoaded
     \/ ListNotModified
     \/ ListFails
  /\ reloadAt' \in now + ReloadIntervalMin .. now + ReloadIntervalMax
  /\ UNCHANGED <<now, served, dpc, healthCheckAt, groupErr, signalled, exit, staleAlarm>>

ListIsStale == now - logsLoadedAt >= HealthCheckInterval

HealthCheck ==
  /\ dpc = "select" /\ now >= healthCheckAt
  /\ staleAlarm' = ListIsStale
  /\ healthCheckAt' = now + HealthCheckInterval
  /\ UNCHANGED <<now, served, dpc, daemonVars, groupVars, signalled, exit, listVars>>

\* A notification or the check of a log failed.
HealthCheckFails == dpc = "select" /\ now >= healthCheckAt /\ Run("error")

RunCancelled == dpc = "select" /\ Done /\ Run("canceled")

-----------------------------------------------------------------------------
(* Tasks, the group and the process. *)

TaskReturns(t, err) ==
  /\ ~goroutines[t].returned
  /\ goroutines' = [goroutines EXCEPT ![t].returned = TRUE]
  /\ Returns(err)
  /\ UNCHANGED <<now, served, dpc, daemonVars, healthCheckAt, signalled, exit,
                 listVars, staleAlarm>>

TaskStops(t) == TaskDone(t) /\ TaskReturns(t, "nil")

\* Mutant: the error of a task is dropped.
Mut_TaskFailsSilently(t) == TaskReturns(t, "nil")

TaskFails(t) == TaskReturns(t, "error")

\* Mutant: the error of group.Wait is not looked at.
Mut_ExitIgnoresError ==
  /\ exit = "running" /\ dpc = "returned"
  /\ \A t \in DOMAIN goroutines : goroutines[t].returned
  /\ exit' = "0"
  /\ UNCHANGED <<now, served, dpc, daemonVars, healthCheckAt, groupVars, signalled,
                 listVars, staleAlarm>>

\* group.Wait returns when every goroutine has.
Exit ==
  /\ exit = "running" /\ dpc = "returned"
  /\ \A t \in DOMAIN goroutines : goroutines[t].returned
  /\ exit' = IF groupErr \in {"nil", "canceled"} THEN "0" ELSE "1"
  /\ UNCHANGED <<now, served, dpc, daemonVars, healthCheckAt, groupVars, signalled,
                 listVars, staleAlarm>>

Signal ==
  /\ exit = "running" /\ ~signalled
  /\ signalled' = TRUE
  /\ UNCHANGED <<now, served, dpc, daemonVars, healthCheckAt, groupVars, exit,
                 listVars, staleAlarm>>

\* The operator of the log list publishes another one.
Publish(list) ==
  /\ exit = "running" /\ served # list
  /\ served' = list
  /\ UNCHANGED <<now, dpc, daemonVars, healthCheckAt, groupVars, signalled, exit,
                 listVars, staleAlarm>>

\* Reloads and health checks take no time compared with the intervals.
Tick ==
  /\ exit = "running" /\ now < MaxTime
  /\ dpc = "select" => now < reloadAt /\ now < healthCheckAt
  /\ now' = now + 1
  /\ UNCHANGED <<served, dpc, daemonVars, healthCheckAt, groupVars, signalled, exit,
                 listVars, staleAlarm>>

Next ==
  \/ Start \/ StartFails \/ Reload \/ HealthCheck \/ HealthCheckFails \/ RunCancelled
  \/ \E t \in DOMAIN goroutines : TaskStops(t)
  \/ \E t \in DOMAIN goroutines : TaskFails(t)
  \/ Exit \/ Signal
  \/ \E list \in Lists : Publish(list)
  \/ Tick

Spec == Init /\ [][Next]_vars

\* Goroutines are scheduled; a task whose context is done returns (LogMonitor's
\* CancelStops); select does not overlook ctx.Done() for ever.
FairSpec ==
  /\ Spec
  /\ WF_vars(RunCancelled) /\ WF_vars(Start \/ StartFails) /\ WF_vars(Exit)
  /\ \A t \in 1..MaxTasks : WF_vars(t \in DOMAIN goroutines /\ TaskStops(t))

-----------------------------------------------------------------------------
Live == {t \in DOMAIN goroutines : ~goroutines[t].stopped}

\* Type invariant.
TypeOK ==
  /\ now \in 0..MaxTime /\ served \in Lists
  /\ dpc \in {"prepare", "select", "returned"}
  /\ DOMAIN tasks \subseteq LogID /\ \A l \in DOMAIN tasks : tasks[l] \in DOMAIN goroutines
  /\ logsLoadedAt \in 0..MaxTime /\ logListToken \in Lists \cup {NoToken}
  /\ groupErr \in {"nil", "canceled", "error"} /\ exit \in {"running", "0", "1"}

\* After any sequence of reloads exactly the logs of the list obtained last have
\* a goroutine that was not told to stop, and no log has two (daemon.go:102-120).
OneTaskPerListedLog ==
  /\ lastList # NoList => DOMAIN tasks = DOMAIN lastList
  /\ Live = {tasks[l] : l \in DOMAIN tasks}
  /\ \A l \in DOMAIN tasks : goroutines[tasks[l]].log = l

\* While the daemon runs no listed log has silently lost its goroutine: a task
\* that ends by itself takes the whole process down (daemon.go:75-86).
NoSilentlyDeadTask ==
  ~Done => \A l \in DOMAIN tasks : ~goroutines[tasks[l]].returned

\* Status 0 is only ever returned after a signal (main.go:266).
CleanExitOnlyOnSignal == exit = "0" => signalled

\* A health check that does not complain about the log list was preceded, within
\* one interval, by an answer with the list (daemon.go:53).
NoStaleListUnnoticed ==
  [][healthCheckAt' # healthCheckAt /\ dpc = "select" /\ ~staleAlarm'
       => now - answeredAt < HealthCheckInterval]_vars

\* After a signal the process ends.
ShutdownCompletes == signalled ~> exit # "running"

\* man/certspotter.md:187: the health check is to "ensure that the log list has
\* been successfully retrieved at least once since the previous health check";
\* it complains only if that is not so.
NoFalseStaleAlarm ==
  [][healthCheckAt' # healthCheckAt /\ staleAlarm'
       => now - answeredAt >= HealthCheckInterval]_vars

=============================================================================
