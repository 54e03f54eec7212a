----------------------------- MODULE HealthCheck -----------------------------
(***************************************************************************)
(* healthCheckLog (monitor/healthcheck.go), run by the daemon's goroutine  *)
(* while the log's own goroutine runs monitorLog: both work on the same    *)
(* state.json and unverified_sths without a lock.  A health check reads    *)
(* state.json, lists the directory, opens the listed files one by one and  *)
(* then reports; the monitor may take steps between any two of these.      *)
(***************************************************************************)
EXTENDS LogMonitor

CONSTANT HealthCheckInterval

ASSUME HealthCheckAssumption == HealthCheckInterval \in Nat \ {0}

VARIABLES
  hpc,      \* control state of healthCheckLog
  hstate,   \* the state it has loaded
  hnames,   \* directory entries it has yet to open
  hsths,    \* the STHs it has read
  verdict,  \* the outcome of the health check that has just ended
  lastTick, \* when the health check ticker was started or last fired
  shrunk    \* history: the log served an STH smaller than an earlier one

hvars == <<hpc, hstate, hnames, hsths, verdict, lastTick>>
allVars == <<vars, hvars, shrunk>>

NoVerdict == [kind |-> "none"]

HInit ==
  /\ Init
  /\ hpc = "idle" /\ hstate = NoState /\ hnames = {} /\ hsths = {}
  /\ verdict = NoVerdict /\ lastTick = 0 /\ shrunk = FALSE

Conclude(v) ==
  /\ verdict' = v
  /\ hpc' = "idle" /\ hstate' = NoState /\ hnames' = {} /\ hsths' = {}
  /\ UNCHANGED lastTick

\* The health check ticker fires.
BeginHealthCheck ==
  /\ hpc = "idle" /\ pc # "stopped" /\ ~cancelled
  /\ clock - lastTick >= HealthCheckInterval
  /\ lastTick' = clock
  /\ hpc' = "loadState"
  /\ verdict' = NoVerdict
  /\ UNCHANGED <<vars, hstate, hnames, hsths>>

\* Mutant: a success exactly one interval ago still counts.
Mut_IsRecentInclusive(s) == clock - s.LastSuccess <= HealthCheckInterval

IsRecent(s) == clock - s.LastSuccess < HealthCheckInterval

HealthLoadState ==
  /\ hpc = "loadState"
  /\ \/ disk = NoState /\ Conclude([kind |-> "noState"])
     \/ disk # NoState /\ IsRecent(disk) /\ Conclude([kind |-> "healthy"])
     \/ /\ disk # NoState /\ ~IsRecent(disk)
        /\ hstate' = disk
        /\ hpc' = "readDir"
        /\ UNCHANGED <<hnames, hsths, verdict, lastTick>>
  /\ UNCHANGED vars

HealthReadDir ==
  /\ hpc = "readDir"
  /\ hnames' = sthDir
  /\ hpc' = "readFiles"
  /\ UNCHANGED <<vars, hstate, hsths, verdict, lastTick>>

HealthReadFile(h) ==
  /\ hpc = "readFiles" /\ h \in sthDir
  /\ hnames' = hnames \ {h}
  /\ hsths' = hsths \cup {h}
  /\ UNCHANGED <<vars, hpc, hstate, verdict, lastTick>>

\* The daemon returns the error: the whole process is told to stop.
HealthCheckFails(reason) ==
  /\ Conclude([kind |-> reason])
  /\ cancelled' = TRUE
  /\ UNCHANGED <<diskVars, memVars, pc, returned, startAtEnd, clock, badEntries, historyVars>>

\* The file was listed, but it has been removed since.
HealthFileVanished(h) ==
  /\ hpc = "readFiles" /\ h \notin sthDir
  /\ HealthCheckFails("vanished")

\* Any other failure to read a file or to send the notification.
HealthCheckError ==
  /\ hpc # "idle"
  /\ HealthCheckFails("error")

\* BacklogInfo.Backlog subtracts unsigned numbers: a negative difference here is
\* a number close to 2^64 there.
Backlog(latest, position) == latest.TreeSize - position

ReportFailure ==
  /\ hpc = "readFiles" /\ hnames = {}
  /\ \/ /\ hsths = {}
        /\ Conclude([kind |-> "stale", LastSuccess |-> hstate.LastSuccess])
     \/ \E h \in LastSTHs(hsths) :
          Conclude([kind |-> "backlog", Backlog |-> Backlog(h, Size(hstate))])
  /\ UNCHANGED vars

HealthStep ==
  \/ BeginHealthCheck \/ HealthLoadState \/ HealthReadDir
  \/ \E h \in hnames : HealthReadFile(h)
  \/ \E h \in hnames : HealthFileVanished(h)
  \/ HealthCheckError
  \/ ReportFailure

\* The STH of this step is at least as large as every one before.
GetsFreshSTH ==
  pc = "getSTH" /\ pc' = "loadState" => \A q \in heard : q[2] <= latestSTH'.TreeSize

\* A step of the monitor.  When the process stops the health check stops too,
\* and a new process starts a new ticker.
MonitorSide ==
  /\ Next
  /\ shrunk' = (shrunk \/ ~GetsFreshSTH)
  /\ verdict' = NoVerdict
  /\ CASE pc' = "stopped" -> Conclude(NoVerdict)
       [] pc = "stopped" /\ pc' # "stopped" ->
            lastTick' = clock /\ UNCHANGED <<hpc, hstate, hnames, hsths>>
       [] OTHER -> UNCHANGED <<hpc, hstate, hnames, hsths, lastTick>>

HNext == (HealthStep /\ UNCHANGED shrunk) \/ MonitorSide

HSpec == HInit /\ [][HNext]_allVars

-----------------------------------------------------------------------------

\* A log with a state.json that passes the health check has been contacted
\* within the last interval (healthcheck.go:35, monitor.go:220).
HealthyMeansContacted ==
  [][verdict' # verdict /\ verdict'.kind = "healthy"
       => \E r \in heard : clock - r[1] < HealthCheckInterval]_allVars

\* The backlog that is reported is never negative although position and STHs
\* are read at different times, as long as the log's STHs do not shrink: the
\* monitor removes STHs smallest first (healthcheck.go:53-62, monitor.go:130).
BacklogNotNegative == verdict.kind = "backlog" /\ ~shrunk => verdict.Backlog >= 0

\* man/certspotter.md:189: a health check ensures "that every log has been
\* successfully contacted at least once since the previous health check".
PassingMeansContacted ==
  [][verdict' # verdict /\ verdict'.kind \in {"healthy", "noState"}
       => \E r \in heard : clock - r[1] < HealthCheckInterval]_allVars

\* monitor/state.go:52 says of RemoveSTH: "Remove an STH so it is no longer
\* returned by LoadSTHs."  A concurrent LoadSTHs returns it or does not, but the
\* removal does not make it fail and end the process (sthdir.go:42, 53).
HealthCheckToleratesRemoval == verdict.kind # "vanished"

=============================================================================
