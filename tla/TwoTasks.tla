------------------------------ MODULE TwoTasks ------------------------------
(***************************************************************************)
(* A log leaves the log list and comes back while its stopped task is      *)
(* still in a round (monitor/daemon.go:102-120): for a while the old task  *)
(* and the new one are two LogMonitors with memories of their own, which   *)
(* share state.json, unverified_sths and the notifications, without a      *)
(* lock.  The context of the old one is cancelled; it still finishes what  *)
(* it has received and saves the state it holds.  The process ends when    *)
(* the new task fails.  An error of the old one other than its             *)
(* cancellation ends the process too; the new one may go on here, which    *)
(* only adds behaviours.  A crash adds nothing, since every round starts   *)
(* from the files (LogMonitor has crashes).                                *)
(***************************************************************************)
EXTENDS LogMonitor

\* The memory of the stopped task.
VARIABLES oldPC, oldState, oldAliased, oldSTHs, oldLatestSTH, oldStartTime,
          oldDownloadEnd, oldShouldSaveState, oldReturned, oldCancelled

oldMem == <<oldState, oldAliased, oldSTHs, oldShouldSaveState,
            oldLatestSTH, oldStartTime, oldDownloadEnd>>
oldVars == <<oldMem, oldPC, oldReturned, oldCancelled>>
taskVars == <<vars, oldVars>>

Old == INSTANCE LogMonitor WITH
         pc <- oldPC, state <- oldState, aliased <- oldAliased, sths <- oldSTHs,
         latestSTH <- oldLatestSTH, startTime <- oldStartTime, downloadEnd <- oldDownloadEnd,
         shouldSaveState <- oldShouldSaveState, returned <- oldReturned, cancelled <- oldCancelled

TwoInit ==
  /\ Init
  /\ oldPC = "none" /\ oldState = NoState /\ oldAliased = FALSE /\ oldSTHs = {}
  /\ oldLatestSTH = NoSTH /\ oldStartTime = 0 /\ oldDownloadEnd = 0
  /\ oldShouldSaveState = FALSE /\ oldReturned = "nil" /\ oldCancelled = FALSE

\* task.stop(), and startTask for the same log at a later reload.  A log that is
\* dropped before its state.json was written is left to LogMonitor.
Replace ==
  /\ oldPC = "none" /\ pc # "stopped" /\ ~cancelled /\ disk # NoState
  /\ oldPC' = pc /\ oldState' = state /\ oldAliased' = aliased /\ oldSTHs' = sths
  /\ oldLatestSTH' = latestSTH /\ oldStartTime' = startTime /\ oldDownloadEnd' = downloadEnd
  /\ oldShouldSaveState' = shouldSaveState /\ oldReturned' = returned /\ oldCancelled' = TRUE
  /\ pc' = "idle" /\ returned' = "nil" /\ Forget
  /\ UNCHANGED <<diskVars, processVars, clock, badEntries, historyVars>>

OldStep ==
  /\ oldPC \notin {"none", "stopped"}
  /\ Old!MonitorStep \/ Old!ProcessFails \/ Old!StateCallFails
  /\ UNCHANGED <<memVars, pc, returned, cancelled>>

NewStep ==
  /\ MonitorStep \/ ProcessFails \/ StateCallFails
  /\ UNCHANGED oldVars

TwoNext == Replace \/ OldStep \/ NewStep

TwoSpec == TwoInit /\ [][TwoNext]_taskVars

\* Both tasks are scheduled; the log answers now and then (see LogMonitor).
TwoFairSpec ==
  /\ TwoSpec
  /\ WF_taskVars(OldStep) /\ WF_taskVars(MonitorStep /\ UNCHANGED oldVars)
  /\ SF_taskVars((\E t \in Timestamp : GetSTH(TreeHead(Len(Log), t))) /\ UNCHANGED oldVars)
  /\ SF_taskVars((\E leaf \in Leaf : ReceiveEntry(leaf)) /\ UNCHANGED oldVars)
  /\ SF_taskVars(StartAtLatestSTH /\ UNCHANGED oldVars)

-----------------------------------------------------------------------------
\* Whichever task saves last, and however much of the other's progress it
\* overwrites: state.json describes a tree that was signed, verified and
\* processed as far as it says, and the STHs of entries nobody has read are on
\* file (monitor.go:139-147, 192-206, sthdir.go:81-88).
FilesSurviveOverlap ==
  /\ disk # NoState => Audited(disk, start, processed)
  /\ NoSTHForgotten

\* What a late save of the old task undoes is made good by the new one: while
\* the process stays up, state.json gets to the end of the log and stays there.
LateSaveIsMadeGood ==
  <>[](pc # "stopped") => <>[](disk # NoState /\ disk.VerifiedPosition = Log)
=============================================================================
