---------------------------- MODULE HealthProofs ----------------------------
(***************************************************************************)
(* Theorems about HealthCheck: it does not disturb the monitor, so that    *)
(* all that is proved of LogMonitor holds beside it, and what it reports   *)
(* fits what the monitor has heard from the log although it reads the      *)
(* files while the monitor changes them.                                   *)
(***************************************************************************)
EXTENDS HealthCheck, LogMonitorProofs

\* A health check runs only within a process.
AliveInv == hpc # "idle" => pc # "stopped"

\* A log state s was saved in a round that heard from the log, and is no larger
\* than what the log has announced.
Within(s, known) == (\E r \in known : r[1] = s.LastSuccess) /\ (\E r \in known : Size(s) <= r[2])

\* What the files and the memory of the monitor owe to the STHs it was served.
HeardInv ==
  /\ disk # NoState => Within(disk, heard)
  /\ pc \in InRound => Within(state, heard) /\ \E r \in heard : r[1] = startTime
  /\ pc = "loadState" => <<startTime, latestSTH.TreeSize>> \in heard
  /\ pc \in {"receive", "verify"} => \E r \in heard : downloadEnd <= r[2]
  /\ \A h \in sthDir \cup sths : \E r \in heard : h.TreeSize = r[2]

\* While the log does not shrink, the newest of its STHs is the last to go.
NewestInv ==
  ~shrunk /\ sthDir # {} => \E h \in sthDir : \A r \in heard : r[2] <= h.TreeSize

\* What the health check has read.
ReadInv ==
  /\ hpc \in {"idle", "loadState", "readDir", "readFiles"}
  /\ hpc \in {"readDir", "readFiles"} =>
       hstate \in LogState /\ \E r \in heard : Size(hstate) <= r[2]
  /\ hpc \in {"idle", "loadState", "readDir"} => hnames = {} /\ hsths = {}
  /\ hnames \cup hsths \subseteq STH
  /\ hpc = "readFiles" /\ ~shrunk /\ hnames \cup hsths # {} =>
       \E h \in hnames \cup hsths : Size(hstate) <= h.TreeSize

-----------------------------------------------------------------------------
(* The health check beside the monitor. *)

\* A failing check cancels the context, nothing else.
LEMMA FailureIsCancel ==
  ASSUME TypeOK, AliveInv, hpc # "idle", NEW reason, HealthCheckFails(reason)
  PROVE  [Next]_vars /\ hpc' = "idle"
<1> USE DEF diskVars, memVars, roundVars, processVars, historyVars
<1>1. pc # "stopped" /\ hpc' = "idle" /\ cancelled' = TRUE
      /\ UNCHANGED <<diskVars, memVars, pc, returned, startAtEnd, clock, badEntries, historyVars>>
  BY DEF AliveInv, HealthCheckFails, Conclude
<1>2. CASE cancelled = TRUE
  BY <1>1, <1>2 DEF vars
<1>3. CASE cancelled = FALSE
  BY <1>1, <1>3 DEF Cancel, Next
<1> QED BY <1>1, <1>2, <1>3 DEF TypeOK

\* Every step is a step of LogMonitor, or leaves its variables alone.
LEMMA HealthStepIsMonitorStep == TypeOK /\ AliveInv /\ [HNext]_allVars => [Next]_vars /\ AliveInv'
<1> SUFFICES ASSUME TypeOK, AliveInv, [HNext]_allVars PROVE [Next]_vars /\ AliveInv'
  OBVIOUS
<1>1. CASE MonitorSide
  <2>1. Next /\ (pc' = "stopped" => hpc' = "idle")
    BY <1>1 DEF MonitorSide, Conclude
  <2> QED BY <2>1 DEF AliveInv
<1>2. ASSUME UNCHANGED vars, hpc' # "idle" => pc # "stopped" PROVE [Next]_vars /\ AliveInv'
  BY <1>2 DEF AliveInv, vars
<1>3. CASE BeginHealthCheck
  BY <1>2, <1>3 DEF BeginHealthCheck
<1>4. CASE HealthLoadState
  BY <1>2, <1>4 DEF HealthLoadState, Conclude, AliveInv
<1>5. CASE HealthReadDir
  BY <1>2, <1>5 DEF HealthReadDir, AliveInv
<1>6. ASSUME NEW h \in hnames, HealthReadFile(h) PROVE [Next]_vars /\ AliveInv'
  BY <1>2, <1>6 DEF HealthReadFile, AliveInv
<1>7. ASSUME NEW h \in hnames, HealthFileVanished(h) PROVE [Next]_vars /\ AliveInv'
  BY <1>7, FailureIsCancel DEF HealthFileVanished, AliveInv
<1>8. CASE HealthCheckError
  BY <1>8, FailureIsCancel DEF HealthCheckError, AliveInv
<1>9. CASE ReportFailure
  BY <1>2, <1>9 DEF ReportFailure, Conclude
<1>10. CASE UNCHANGED allVars
  BY <1>2, <1>10 DEF allVars, hvars, AliveInv
<1> QED BY <1>1, <1>3, <1>4, <1>5, <1>6, <1>7, <1>8, <1>9, <1>10 DEF HNext, HealthStep

\* The monitor beside a health check is the monitor: whatever is proved of
\* LogMonitor holds here (healthcheck.go writes none of its files).
THEOREM MonitorUndisturbed == HSpec => Spec
<1>1. HInit => Init /\ TypeOK /\ TaskInv /\ AliveInv
  BY InitType, InitTask DEF HInit, AliveInv
<1>2. TypeOK /\ TaskInv /\ AliveInv /\ [HNext]_allVars =>
        [Next]_vars /\ (TypeOK /\ TaskInv /\ AliveInv)'
  BY HealthStepIsMonitorStep, NextType, NextTask
<1> QED BY <1>1, <1>2, PTL DEF HSpec, Spec

-----------------------------------------------------------------------------
(* What the monitor has heard from the log. *)

\* A state with the same LastSuccess, or that of this round, and no more entries.
LEMMA WithinStays ==
  ASSUME NEW s \in LogState, NEW t \in LogState, NEW known \in SUBSET (Nat \X Nat),
         Within(s, known), Size(t) <= Size(s),
         t.LastSuccess = s.LastSuccess \/ \E r \in known : r[1] = t.LastSuccess
  PROVE  Within(t, known)
<1>1. Size(s) \in Nat /\ Size(t) \in Nat
  BY StateFields
<1>2. PICK r \in known : Size(s) <= r[2]
  BY DEF Within
<1>3. Size(t) <= r[2] /\ r[2] \in Nat
  BY <1>1, <1>2
<1> QED BY <1>3 DEF Within

\* A step in a round that hears of nothing new.
LEMMA HeardGoesOn ==
  ASSUME Base, Base', HeardInv, UNCHANGED <<heard, startTime>>, pc \in InRound,
         disk' = disk \/ disk' = state \/ (disk' = state' /\ pc' \in InRound),
         pc' \in InRound => Within(state', heard),
         pc' \in {"receive", "verify"} => \E r \in heard : downloadEnd' <= r[2],
         sthDir' \cup sths' \subseteq sthDir \cup sths, pc' # "loadState"
  PROVE  HeardInv'
<1>1. disk' # NoState => Within(disk', heard)
  BY DEF HeardInv, Base, TaskInv
<1> QED BY <1>1 DEF HeardInv

\* Sizes of the states that the steps of a round make.
LEMMA SizesOf ==
  ASSUME NEW s \in LogState, NEW h \in STH, startTime \in Nat
  PROVE  Size(Verified(s, h)) = Size(s) /\ Size(Succeeded(s)) = Size(s)
  BY VerifiedType, SucceededType DEF Size

\* Every step of the monitor keeps HeardInv.
LEMMA NextHeard == Base /\ Base' /\ HeardInv /\ [Next]_vars => HeardInv'
<1> SUFFICES ASSUME Base, Base', HeardInv, [Next]_vars PROVE HeardInv'
  OBVIOUS
<1> USE DEF diskVars, memVars, roundVars, processVars, historyVars
<1>0. /\ startTime \in Nat /\ downloadEnd \in Nat /\ heard \in SUBSET (Nat \X Nat)
      /\ sths \subseteq STH /\ Heads \subseteq STH
      /\ pc \in InRound => state \in LogState /\ Size(state) \in Nat
      /\ pc' \in InRound => state' \in LogState /\ Size(state') \in Nat
  BY StateFields, HeadsAreSTHs DEF Base, TypeOK, TaskInv
<1>a. ASSUME UNCHANGED <<disk, heard>>, pc' \in {"idle", "stopped", "getSTH"},
             sthDir' \cup sths' \subseteq sthDir \cup sths
      PROVE  HeardInv'
  BY <1>a DEF HeardInv, InRound
<1>1. CASE BeginRound \/ StopWhenIdle \/ RequestFails \/ StateCallFails \/ Crash \/ Restart
  <2>1. /\ UNCHANGED <<disk, heard, sthDir>> /\ pc' \in {"idle", "stopped", "getSTH"}
        /\ sths' \in {{}, sths}
    BY <1>1 DEF BeginRound, StopWhenIdle, RequestFails, StateCallFails, Crash, Restart,
                ReturnEarly, Forget
  <2> QED BY <1>a, <2>1
<1>2. ASSUME NEW h \in Heads, GetSTH(h) PROVE HeardInv'
  <2>1. /\ heard' = heard \cup {<<startTime, h.TreeSize>>} /\ sthDir' = sthDir \cup {h}
        /\ pc' = "loadState" /\ latestSTH' = h /\ UNCHANGED <<disk, sths, startTime>>
    BY <1>2 DEF GetSTH
  <2>2. disk' # NoState => Within(disk', heard')
    BY <2>1 DEF HeardInv, Within
  <2>3. \A g \in sthDir' \cup sths' : \E r \in heard' : g.TreeSize = r[2]
    BY <2>1 DEF HeardInv
  <2> QED BY <2>1, <2>2, <2>3 DEF HeardInv, InRound
<1>3. CASE LoadState
  <2>1. /\ pc = "loadState" /\ disk # NoState /\ state' = disk /\ pc' = "loadSTHs"
        /\ UNCHANGED <<disk, heard, sthDir, sths, startTime>>
    BY <1>3 DEF LoadState
  <2>2. \E r \in heard : r[1] = startTime
    BY <2>1 DEF HeardInv
  <2> QED BY <2>1, <2>2 DEF HeardInv
<1>4. CASE StartAtBeginning \/ StartAtLatestSTH
  <2>1. /\ pc = "loadState" /\ state' = disk' /\ pc' = "loadSTHs"
        /\ UNCHANGED <<heard, sthDir, sths, startTime>> /\ disk'.LastSuccess = startTime
    BY <1>4 DEF StartAtBeginning, StartAtLatestSTH, CreateState, NewState
  <2>2. PICK r \in heard : r = <<startTime, latestSTH.TreeSize>>
    BY <2>1 DEF HeardInv
  <2>3. latestSTH \in STH /\ r[2] \in Nat /\ latestSTH.TreeSize = r[2]
    BY <1>0, <2>1, <2>2 DEF Base, TaskInv
  <2>4. Size(disk') <= r[2]
    <3>1. CASE StartAtBeginning
      BY <2>3, <3>1 DEF StartAtBeginning, CreateState, NewState, Size
    <3>2. CASE StartAtLatestSTH
      BY <2>3, <3>2, TreeOfType DEF StartAtLatestSTH, CreateState, NewState, Size
    <3> QED BY <1>4, <3>1, <3>2
  <2> QED BY <2>1, <2>2, <2>4 DEF HeardInv, Within
<1>5. CASE LoadSTHs
  <2>1. /\ pc \in InRound /\ pc' = "prune" /\ sths' = sthDir
        /\ UNCHANGED <<disk, sthDir, state, heard, startTime>>
    BY <1>5 DEF LoadSTHs, InRound
  <2> QED BY <2>1, HeardGoesOn DEF HeardInv
<1>6. ASSUME NEW h \in sths, PruneSTH(h) PROVE HeardInv'
  <2>1. /\ pc \in InRound /\ pc' = "prune" /\ sths' = sths \ {h} /\ sthDir' = sthDir \ {h}
        /\ UNCHANGED <<disk, state, heard, startTime>>
    BY <1>6 DEF PruneSTH, InRound
  <2> QED BY <2>1, HeardGoesOn DEF HeardInv
<1>7. CASE NothingToDownload \/ FinishDownload
  <2>1. /\ pc \in InRound /\ pc' = "deferred" /\ state' = Succeeded(state)
        /\ UNCHANGED <<disk, sthDir, sths, heard, startTime>>
    BY <1>7 DEF NothingToDownload, FinishDownload, InRound, Return
  <2>2. Within(state', heard)
    <3>1. Size(state') = Size(state)
      BY <1>0, <2>1, SucceededType DEF Size
    <3>2. \E r \in heard : r[1] = state'.LastSuccess
      BY <1>0, <2>1, LastSuccessOf DEF HeardInv
    <3> QED BY <2>1, <3>1, <3>2 DEF HeardInv, Within
  <2>3. /\ pc' \notin {"receive", "verify", "loadState"} /\ sthDir' \cup sths' \subseteq sthDir \cup sths
        /\ pc' \in InRound
    BY <2>1 DEF InRound
  <2> QED BY <2>1, <2>2, <2>3, HeardGoesOn
<1>8. CASE StartDownload
  <2>1. /\ pc \in InRound /\ pc' = "receive" /\ UNCHANGED <<disk, sthDir, sths, state, heard, startTime>>
    BY <1>8 DEF StartDownload, InRound
  <2>2. PICK h \in sths : downloadEnd' = h.TreeSize
    BY <1>8 DEF StartDownload, LastSTHs
  <2>3. PICK r \in heard : downloadEnd' = r[2]
    BY <2>2 DEF HeardInv
  <2>4. \E q \in heard : downloadEnd' <= q[2]
    BY <1>0, <2>3
  <2> QED BY <2>1, <2>4, HeardGoesOn DEF HeardInv
<1>9. ASSUME NEW leaf \in Leaf, ReceiveEntry(leaf) PROVE HeardInv'
  <2>1. /\ pc = "receive" /\ pc \in InRound /\ pc' = "verify" /\ pc' \in InRound
        /\ Size(state) < downloadEnd /\ state' = AddEntry(state, leaf)
        /\ UNCHANGED <<disk, sthDir, sths, downloadEnd, heard, startTime>>
    BY <1>9 DEF ReceiveEntry, InRound
  <2>2. Size(state') = Size(state) + 1 /\ state'.LastSuccess = state.LastSuccess
    <3>1. state'.DownloadPosition = Append(state.DownloadPosition, leaf)
      BY <1>0, <2>1, AddEntryType
    <3>2. Len(Append(state.DownloadPosition, leaf)) = Len(state.DownloadPosition) + 1
      BY <1>0, <2>1, AppendExtends, StateFields
    <3>3. state'.LastSuccess = state.LastSuccess
      BY <1>0, <2>1, LastSuccessOf
    <3> QED BY <3>1, <3>2, <3>3 DEF Size
  <2>3. PICK r \in heard : downloadEnd <= r[2]
    BY <2>1 DEF HeardInv
  <2>4. Size(state') <= r[2]
    BY <1>0, <2>1, <2>2, <2>3
  <2>5. Within(state', heard)
    BY <2>1, <2>2, <2>4 DEF HeardInv, Within
  <2> QED BY <2>1, <2>3, <2>5, HeardGoesOn
<1>10. ASSUME NEW h \in sths, VerifySTH(h) PROVE HeardInv'
  <2>1. /\ pc = "verify" /\ pc \in InRound /\ pc' \in {"verify", "deferred"} /\ pc' \in InRound
        /\ state' = Verified(state, h) /\ sthDir' \cup sths' \subseteq sthDir \cup sths
        /\ UNCHANGED <<disk, downloadEnd, heard, startTime>>
    BY <1>10 DEF VerifySTH, InRound, Return
  <2>2. Size(state') = Size(state) /\ state'.LastSuccess = state.LastSuccess
    BY <1>0, <2>1, SizesOf, LastSuccessOf
  <2>3. Within(state', heard)
    BY <2>1, <2>2 DEF HeardInv, Within
  <2> QED BY <2>1, <2>3, HeardGoesOn DEF HeardInv
<1>11. ASSUME NEW h \in sths, RejectSTH(h) PROVE HeardInv'
  <2>1. /\ pc \in InRound /\ pc' = "deferred" /\ pc' \in InRound /\ state' = RollBack(state)
        /\ disk' \in {disk, state'} /\ UNCHANGED <<sthDir, sths, heard, startTime>>
    BY <1>11 DEF RejectSTH, InRound, Return
  <2>2. Size(state') <= Size(state) /\ state'.LastSuccess = state.LastSuccess
    <3>1. IsPrefixOf(state.VerifiedPosition, state.DownloadPosition)
      BY <2>1 DEF Base, TaskInv, Audited
    <3> QED BY <1>0, <2>1, <3>1, RollBackType, LastSuccessOf DEF Size, IsPrefixOf
  <2>3. Within(state', heard)
    BY <1>0, <2>1, <2>2, WithinStays DEF HeardInv
  <2> QED BY <2>1, <2>3, HeardGoesOn
<1>12. CASE FinishEntry \/ DownloadFails \/ ProcessFails
  <2>1. /\ pc \in InRound /\ pc \in {"receive", "verify"} /\ pc' \in {"receive", "deferred"}
        /\ disk' \in {disk, state} /\ UNCHANGED <<sthDir, sths, state, downloadEnd, heard, startTime>>
    BY <1>12 DEF FinishEntry, DownloadFails, ProcessFails, InRound, Return
  <2> QED BY <2>1, HeardGoesOn DEF HeardInv
<1>13. CASE DeferredSave
  <2>1. /\ pc \in InRound /\ pc' \in {"idle", "stopped"} /\ disk' \in {disk, state}
        /\ sths' = {} /\ UNCHANGED <<sthDir, heard>>
    BY <1>13 DEF DeferredSave, ReturnEarly, Forget, InRound
  <2>2. disk' # NoState => Within(disk', heard)
    BY <2>1 DEF HeardInv, Base, TaskInv
  <2> QED BY <2>1, <2>2 DEF HeardInv, InRound
<1>14. CASE Cancel \/ Tick \/ UNCHANGED vars
  BY <1>14 DEF Cancel, Tick, vars, HeardInv
<1> QED
  BY <1>1, <1>2, <1>3, <1>4, <1>5, <1>6, <1>7, <1>8, <1>9, <1>10, <1>11, <1>12, <1>13, <1>14
  DEF Next, MonitorStep

-----------------------------------------------------------------------------
(* What the health check reads. *)

\* Removing a smallest STH of the slice leaves one of the largest, or none.
LEMMA NewestStays ==
  ASSUME Base, NewestInv, ~shrunk' => ~shrunk, heard' = heard, sthDir \subseteq sths,
         NEW h \in FirstSTHs(sths), sthDir' = sthDir \ {h}
  PROVE  NewestInv'
<1> SUFFICES ASSUME ~shrunk, NEW g \in sthDir', g # h
             PROVE  \E f \in sthDir' : \A r \in heard : r[2] <= f.TreeSize
  BY DEF NewestInv
<1>1. PICK m \in sthDir : \A r \in heard : r[2] <= m.TreeSize
  BY DEF NewestInv
<1>2. CASE m # h
  BY <1>1, <1>2
<1>3. CASE m = h
  <2>1. h.TreeSize \in Nat /\ g.TreeSize \in Nat /\ h.TreeSize <= g.TreeSize
    BY DEF FirstSTHs, Base, TypeOK, STH
  <2>2. \A r \in heard : r[2] \in Nat
    BY DEF Base, TypeOK
  <2>3. \A r \in heard : r[2] <= g.TreeSize
    BY <1>1, <1>3, <2>1, <2>2
  <2> QED BY <2>3
<1> QED BY <1>2, <1>3

\* The monitor removes the newest STH last.
LEMMA NextNewest == Base /\ RoundInv /\ NewestInv /\ MonitorSide => NewestInv' /\ heard \subseteq heard'
<1> SUFFICES ASSUME Base, RoundInv, NewestInv, MonitorSide PROVE NewestInv' /\ heard \subseteq heard'
  OBVIOUS
<1> USE DEF diskVars, memVars, roundVars, processVars, historyVars
<1>0. Next /\ shrunk' = (shrunk \/ ~GetsFreshSTH) /\ (~shrunk' => ~shrunk)
  BY DEF MonitorSide
<1>a. ASSUME UNCHANGED <<sthDir, heard>> PROVE NewestInv' /\ heard \subseteq heard'
  BY <1>0, <1>a DEF NewestInv
<1>1. ASSUME NEW h \in Heads, GetSTH(h) PROVE NewestInv' /\ heard \subseteq heard'
  <2>1. /\ pc = "getSTH" /\ pc' = "loadState" /\ latestSTH' = h /\ h \in sthDir'
        /\ heard' = heard \cup {<<startTime, h.TreeSize>>} /\ h.TreeSize \in Nat
    BY <1>1, HeadsAreSTHs DEF GetSTH, STH
  <2>2. ~shrunk' => \A q \in heard : q[2] <= h.TreeSize
    BY <1>0, <2>1 DEF GetsFreshSTH
  <2>3. ~shrunk' => \A q \in heard' : q[2] <= h.TreeSize
    BY <2>1, <2>2
  <2> QED BY <2>1, <2>3 DEF NewestInv
<1>2. ASSUME NEW h \in sths, PruneSTH(h) PROVE NewestInv' /\ heard \subseteq heard'
  <2>1. sthDir \subseteq sths /\ h \in FirstSTHs(sths) /\ sthDir' = sthDir \ {h} /\ heard' = heard
    BY <1>2 DEF PruneSTH, RoundInv
  <2> QED BY <1>0, <2>1, NewestStays
<1>3. ASSUME NEW h \in sths, VerifySTH(h) PROVE NewestInv' /\ heard \subseteq heard'
  <2>1. sthDir \subseteq sths /\ h \in FirstSTHs(sths) /\ heard' = heard
    BY <1>3 DEF VerifySTH, IsNext, RoundInv
  <2>2. sthDir' = sthDir \ {h} \/ sthDir' = sthDir
    BY <1>3 DEF VerifySTH
  <2> QED BY <1>0, <1>a, <2>1, <2>2, NewestStays
<1>4. CASE BeginRound \/ StopWhenIdle \/ RequestFails \/ LoadState \/ StartAtBeginning \/ StartAtLatestSTH
  BY <1>4, <1>a DEF BeginRound, StopWhenIdle, RequestFails, LoadState, StartAtBeginning,
                    StartAtLatestSTH, CreateState
<1>5. CASE LoadSTHs \/ NothingToDownload \/ StartDownload \/ (\E leaf \in Leaf : ReceiveEntry(leaf))
  BY <1>5, <1>a DEF LoadSTHs, NothingToDownload, StartDownload, ReceiveEntry
<1>6. CASE (\E h \in sths : RejectSTH(h)) \/ FinishEntry \/ FinishDownload \/ DownloadFails \/ DeferredSave
  BY <1>6, <1>a DEF RejectSTH, FinishEntry, FinishDownload, DownloadFails, DeferredSave
<1>7. CASE ProcessFails \/ StateCallFails \/ Cancel \/ Crash \/ Restart \/ Tick
  BY <1>7, <1>a DEF ProcessFails, StateCallFails, Cancel, Crash, Restart, Tick
<1> QED BY <1>0, <1>1, <1>2, <1>3, <1>4, <1>5, <1>6, <1>7 DEF Next, MonitorStep

\* A health check that has ended has nothing in memory.
LEMMA ConcludeKeeps ==
  ASSUME hpc' = "idle", hnames' = {}, hsths' = {}
  PROVE  ReadInv'
  BY DEF ReadInv

\* Every step keeps what is known of the files that were read.
LEMMA NextRead ==
  Base /\ RoundInv /\ HeardInv /\ NewestInv /\ ReadInv /\ [HNext]_allVars => ReadInv' /\ NewestInv'
<1> SUFFICES ASSUME Base, RoundInv, HeardInv, NewestInv, ReadInv, [HNext]_allVars
             PROVE  ReadInv' /\ NewestInv'
  OBVIOUS
<1> USE DEF diskVars, memVars, roundVars, processVars, historyVars
<1>1. CASE MonitorSide
  <2>1. NewestInv' /\ heard \subseteq heard'
    BY <1>1, NextNewest
  <2>2. CASE Conclude(NoVerdict)
    BY <2>1, <2>2, ConcludeKeeps DEF Conclude
  <2>3. CASE UNCHANGED <<hpc, hstate, hnames, hsths>>
    <3>1. ~shrunk' => ~shrunk
      BY <1>1 DEF MonitorSide
    <3> QED BY <2>1, <2>3, <3>1 DEF ReadInv
  <2> QED BY <1>1, <2>2, <2>3 DEF MonitorSide
<1>2. ASSUME HealthStep, UNCHANGED shrunk PROVE ReadInv' /\ NewestInv'
  <2>1. UNCHANGED <<sthDir, heard>>
    BY <1>2 DEF HealthStep, BeginHealthCheck, HealthLoadState, HealthReadDir, HealthReadFile,
                HealthFileVanished, HealthCheckError, HealthCheckFails, ReportFailure, vars
  <2>2. NewestInv'
    BY <1>2, <2>1 DEF NewestInv
  <2> SUFFICES ReadInv'
    BY <2>2
  <2>3. CASE BeginHealthCheck
    <3>1. hpc' = "loadState" /\ hnames' = {} /\ hsths' = {}
      BY <2>3 DEF BeginHealthCheck, ReadInv
    <3> QED BY <3>1 DEF ReadInv
  <2>4. CASE HealthLoadState
    <3>1. CASE hpc' = "idle" /\ hnames' = {} /\ hsths' = {}
      BY <3>1, ConcludeKeeps
    <3>2. CASE disk # NoState /\ hstate' = disk /\ hpc' = "readDir" /\ UNCHANGED <<hnames, hsths>>
      <4>1. disk \in LogState /\ \E r \in heard : Size(disk) <= r[2]
        BY <3>2 DEF HeardInv, Within, Base, TypeOK
      <4>2. hnames' = {} /\ hsths' = {}
        BY <2>4, <3>2 DEF ReadInv, HealthLoadState
      <4> QED BY <2>1, <3>2, <4>1, <4>2 DEF ReadInv
    <3> QED BY <2>4, <3>1, <3>2 DEF HealthLoadState, Conclude
  <2>5. CASE HealthReadDir
    <3>1. /\ hstate \in LogState /\ hnames' = sthDir /\ hsths' = {} /\ hstate' = hstate
          /\ hpc = "readDir" /\ hpc' = "readFiles" /\ sthDir \subseteq STH
      BY <2>5 DEF HealthReadDir, ReadInv, Base, TypeOK
    <3>2. PICK r \in heard : Size(hstate) <= r[2]
      BY <3>1 DEF ReadInv
    <3>3. r[2] \in Nat /\ Size(hstate) \in Nat
      BY <3>1, StateFields DEF Base, TypeOK
    <3>4. ASSUME ~shrunk, sthDir # {} PROVE \E h \in sthDir : Size(hstate) <= h.TreeSize
      <4>1. PICK h \in sthDir : \A q \in heard : q[2] <= h.TreeSize
        BY <3>4 DEF NewestInv
      <4>2. h.TreeSize \in Nat /\ r[2] <= h.TreeSize
        BY <3>1, <4>1 DEF STH
      <4> QED BY <3>2, <3>3, <4>2
    <3>5. \E q \in heard' : Size(hstate') <= q[2]
      BY <2>1, <3>1, <3>2
    <3>6. ~shrunk' /\ sthDir # {} => \E h \in sthDir : Size(hstate') <= h.TreeSize
      BY <1>2, <3>1, <3>4
    <3>7. hnames' \cup hsths' = sthDir
      BY <3>1
    <3> QED BY <3>1, <3>5, <3>6, <3>7 DEF ReadInv
  <2>6. ASSUME NEW h \in hnames, HealthReadFile(h) PROVE ReadInv'
    <3>1. hnames' \cup hsths' = hnames \cup hsths /\ hpc = "readFiles" /\ UNCHANGED <<hpc, hstate>>
      BY <2>6 DEF HealthReadFile
    <3> QED BY <1>2, <2>1, <3>1 DEF ReadInv
  <2>7. ASSUME NEW h \in hnames, HealthFileVanished(h) PROVE ReadInv'
    BY <2>7, ConcludeKeeps DEF HealthFileVanished, HealthCheckFails, Conclude
  <2>8. CASE HealthCheckError
    BY <2>8, ConcludeKeeps DEF HealthCheckError, HealthCheckFails, Conclude
  <2>9. CASE ReportFailure
    BY <2>9, ConcludeKeeps DEF ReportFailure, Conclude
  <2> QED BY <1>2, <2>3, <2>4, <2>5, <2>6, <2>7, <2>8, <2>9 DEF HealthStep
<1>3. CASE UNCHANGED allVars
  BY <1>3 DEF allVars, hvars, vars, ReadInv, NewestInv
<1> QED BY <1>1, <1>2, <1>3 DEF HNext

-----------------------------------------------------------------------------
(* The verdicts. *)

HInv == Base /\ KeptInv /\ RoundInv /\ AliveInv /\ HeardInv /\ NewestInv /\ ReadInv

\* The invariant of monitor and health check holds throughout.
LEMMA AlwaysHInv == HSpec => []HInv
<1>1. HInit => HInv
  <2> SUFFICES ASSUME HInit PROVE HInv
    OBVIOUS
  <2>1. Base
    BY InitType, InitTask DEF Base, HInit
  <2>2. KeptInv /\ RoundInv /\ AliveInv /\ HeardInv /\ NewestInv /\ ReadInv
    BY DEF HInit, Init, KeptInv, NoSTHForgotten, RoundInv, AliveInv, HeardInv, NewestInv, ReadInv, InRound
  <2> QED BY <2>1, <2>2 DEF HInv
<1>2. HInv /\ [HNext]_allVars => HInv'
  <2> SUFFICES ASSUME HInv, [HNext]_allVars PROVE HInv'
    OBVIOUS
  <2>1. [Next]_vars /\ AliveInv'
    BY HealthStepIsMonitorStep DEF HInv, Base
  <2>2. Base'
    BY <2>1, NextType, NextTask DEF HInv, Base
  <2>3. KeptInv' /\ RoundInv' /\ HeardInv'
    BY <2>1, <2>2, NextKept, NextRound, NextHeard DEF HInv
  <2>4. NewestInv' /\ ReadInv'
    BY NextRead DEF HInv
  <2> QED BY <2>1, <2>2, <2>3, <2>4 DEF HInv
<1> QED BY <1>1, <1>2, PTL DEF HSpec

\* What a step says about the log it says in one of these ways.
LEMMA Verdicts ==
  ASSUME [HNext]_allVars
  PROVE  \/ verdict' = verdict /\ (shrunk' = shrunk)
         \/ verdict'.kind \in {"none", "noState", "vanished", "error", "stale"}
         \/ HealthLoadState /\ verdict'.kind = "healthy" /\ disk # NoState /\ IsRecent(disk)
         \/ ReportFailure /\ shrunk' = shrunk /\ hnames = {} /\ hpc = "readFiles" /\ verdict'.kind = "backlog"
              /\ \E h \in LastSTHs(hsths) : verdict'.Backlog = Backlog(h, Size(hstate))
<1>1. CASE MonitorSide
  BY <1>1 DEF MonitorSide, NoVerdict
<1>2. CASE BeginHealthCheck
  BY <1>2 DEF BeginHealthCheck, NoVerdict
<1>3. ASSUME HealthLoadState, UNCHANGED shrunk
      PROVE  \/ verdict' = verdict /\ (shrunk' = shrunk)
             \/ verdict'.kind = "noState"
             \/ verdict'.kind = "healthy" /\ disk # NoState /\ IsRecent(disk)
  BY <1>3 DEF HealthLoadState, Conclude
<1>4. ASSUME HealthReadDir \/ (\E h \in hnames : HealthReadFile(h)), UNCHANGED shrunk
      PROVE  verdict' = verdict /\ (shrunk' = shrunk)
  BY <1>4 DEF HealthReadDir, HealthReadFile
<1>5. CASE (\E h \in hnames : HealthFileVanished(h)) \/ HealthCheckError
  <2>1. verdict'.kind \in {"vanished", "error"}
    BY <1>5 DEF HealthFileVanished, HealthCheckError, HealthCheckFails, Conclude
  <2> QED BY <2>1
<1>6. ASSUME ReportFailure
      PROVE  \/ verdict'.kind = "stale"
             \/ /\ hnames = {} /\ hpc = "readFiles" /\ verdict'.kind = "backlog"
                /\ \E h \in LastSTHs(hsths) : verdict'.Backlog = Backlog(h, Size(hstate))
  <2>1. CASE Conclude([kind |-> "stale", LastSuccess |-> hstate.LastSuccess])
    BY <2>1 DEF Conclude
  <2>2. ASSUME NEW h \in LastSTHs(hsths),
               Conclude([kind |-> "backlog", Backlog |-> Backlog(h, Size(hstate))])
        PROVE  verdict'.kind = "backlog" /\ verdict'.Backlog = Backlog(h, Size(hstate))
    BY <2>2 DEF Conclude
  <2> QED BY <1>6, <2>1, <2>2 DEF ReportFailure
<1>7. CASE UNCHANGED allVars
  BY <1>7 DEF allVars, hvars
<1> QED BY <1>1, <1>2, <1>3, <1>4, <1>5, <1>6, <1>7 DEF HNext, HealthStep

\* A log with a state.json that passes was heard from within the interval: its
\* LastSuccess is the start of a round that got an STH (healthcheck.go:35).
THEOREM HealthyIsContacted == HSpec => HealthyMeansContacted
<1>1. ASSUME HInv, [HNext]_allVars, verdict' # verdict, verdict'.kind = "healthy"
      PROVE  \E r \in heard : clock - r[1] < HealthCheckInterval
  <2>1. disk # NoState /\ IsRecent(disk)
    BY <1>1, Verdicts
  <2>2. PICK r \in heard : r[1] = disk.LastSuccess
    BY <1>1, <2>1 DEF HInv, HeardInv, Within
  <2> QED BY <2>1, <2>2 DEF IsRecent
<1>2. HInv /\ [HNext]_allVars =>
        [verdict' # verdict /\ verdict'.kind = "healthy"
           => \E r \in heard : clock - r[1] < HealthCheckInterval]_allVars
  BY <1>1
<1> QED BY <1>2, AlwaysHInv, PTL DEF HSpec, HealthyMeansContacted

\* The reported backlog is not negative, for any log that does not shrink,
\* however the monitor's steps fall between the reads (healthcheck.go:39-62).
THEOREM BacklogIsNotNegative == HSpec => []BacklogNotNegative
<1>1. HInit => BacklogNotNegative
  BY DEF HInit, NoVerdict, BacklogNotNegative
<1>2. HInv /\ BacklogNotNegative /\ [HNext]_allVars => BacklogNotNegative'
  <2> SUFFICES ASSUME HInv, BacklogNotNegative, [HNext]_allVars, verdict'.kind = "backlog", ~shrunk'
               PROVE  verdict'.Backlog >= 0
    BY DEF BacklogNotNegative
  <2>1. CASE verdict' = verdict /\ shrunk' = shrunk
    BY <2>1 DEF BacklogNotNegative
  <2>2. ASSUME hpc = "readFiles", hnames = {}, ~shrunk, NEW h \in LastSTHs(hsths),
               verdict'.Backlog = Backlog(h, Size(hstate))
        PROVE  verdict'.Backlog >= 0
    <3>1. h \in hsths /\ hsths \subseteq STH /\ hstate \in LogState
      BY <2>2 DEF LastSTHs, HInv, ReadInv
    <3>2. PICK g \in hsths : Size(hstate) <= g.TreeSize
      BY <2>2, <3>1 DEF HInv, ReadInv
    <3>3. g.TreeSize <= h.TreeSize /\ g.TreeSize \in Nat /\ h.TreeSize \in Nat /\ Size(hstate) \in Nat
      BY <2>2, <3>1, StateFields DEF LastSTHs, STH
    <3> QED BY <2>2, <3>2, <3>3 DEF Backlog
  <2> QED BY <2>1, <2>2, Verdicts
<1> QED BY <1>1, <1>2, AlwaysHInv, PTL DEF HSpec

=============================================================================
