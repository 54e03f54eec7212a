--------------------------- MODULE TwoTasksProofs ---------------------------
(***************************************************************************)
(* Proofs about TwoTasks.  Each task keeps the invariant of one task,      *)
(* TaskInv of LogMonitor, by the lemmas of LogMonitorProofs, which are     *)
(* instantiated for the memory of the stopped task; and a task is not      *)
(* disturbed by what the other one writes.                                 *)
(***************************************************************************)
EXTENDS TwoTasks, LogMonitorProofs

Stopped == INSTANCE LogMonitorProofs WITH
         pc <- oldPC, state <- oldState, aliased <- oldAliased, sths <- oldSTHs,
         latestSTH <- oldLatestSTH, startTime <- oldStartTime, downloadEnd <- oldDownloadEnd,
         shouldSaveState <- oldShouldSaveState, returned <- oldReturned, cancelled <- oldCancelled

\* Both tasks rely on the same files, and a stopped task on nothing else.
TwoInv ==
  /\ TypeOK /\ TaskInv /\ KeptInv
  /\ oldPC # "none" => disk # NoState /\ Stopped!TypeOK /\ Stopped!TaskInv

-----------------------------------------------------------------------------
(* The two instances of LogMonitor mean the same. *)

\* What does not depend on the memory of a task is the same for both.
LEMMA SameFiles ==
  /\ Stopped!STH = STH /\ Stopped!LogState = LogState /\ Stopped!Heads = Heads
  /\ Stopped!InRound = InRound
  /\ \A s, from, seen : Stopped!Audited(s, from, seen) <=> Audited(s, from, seen)
  /\ Stopped!KeptInv <=> KeptInv
<1>1. Stopped!STH = STH /\ Stopped!LogState = LogState /\ Stopped!Heads = Heads /\ Stopped!InRound = InRound
  BY DEF STH, Stopped!STH, LogState, Stopped!LogState, Heads, Stopped!Heads, TreeHead, Stopped!TreeHead,
         InRound, Stopped!InRound
<1>2. ASSUME NEW s, NEW from, NEW seen
      PROVE  Stopped!Audited(s, from, seen) <=> Audited(s, from, seen)
  BY DEF Audited, Stopped!Audited, TrustedTree, Stopped!TrustedTree, SignedTrees, Stopped!SignedTrees,
         Heads, Stopped!Heads, TreeHead, Stopped!TreeHead, HasTree, Stopped!HasTree, TreeOf, Stopped!TreeOf,
         IsPrefixOf, Stopped!IsPrefixOf, Size, Stopped!Size
<1>3. Stopped!KeptInv <=> KeptInv
  BY DEF KeptInv, Stopped!KeptInv, NoSTHForgotten, Stopped!NoSTHForgotten, ProcessedUpTo, Stopped!ProcessedUpTo
<1> QED BY <1>1, <1>2, <1>3

\* A step of the stopped task is a step of the instance the lemmas are about.
LEMMA SameSteps ==
  ASSUME Old!MonitorStep \/ Old!ProcessFails \/ Old!StateCallFails
  PROVE  Stopped!Next
<1> USE DEF Old!diskVars, Stopped!diskVars, Old!memVars, Stopped!memVars, Old!roundVars,
            Stopped!roundVars, Old!processVars, Stopped!processVars, Old!historyVars,
            Stopped!historyVars, Old!Size, Stopped!Size, Old!Forget, Stopped!Forget,
            Old!ReturnEarly, Stopped!ReturnEarly, Old!Return, Stopped!Return, Old!FirstSTHs,
            Stopped!FirstSTHs, Old!LastSTHs, Stopped!LastSTHs, Old!IsOld, Stopped!IsOld, Old!IsNext,
            Stopped!IsNext, Old!RootMatches, Stopped!RootMatches, Old!AddEntry, Stopped!AddEntry,
            Old!IsGoodEntry, Stopped!IsGoodEntry, Old!Verified, Stopped!Verified, Old!RollBack,
            Stopped!RollBack, Old!Succeeded, Stopped!Succeeded, Old!NewState, Stopped!NewState,
            Old!CreateState, Stopped!CreateState, Old!HasTree, Stopped!HasTree, Old!TreeOf,
            Stopped!TreeOf
<1>1. Old!BeginRound => Stopped!BeginRound
  BY DEF Old!BeginRound, Stopped!BeginRound
<1>2. Old!StopWhenIdle => Stopped!StopWhenIdle
  BY DEF Old!StopWhenIdle, Stopped!StopWhenIdle
<1>3. Old!RequestFails => Stopped!RequestFails
  BY DEF Old!RequestFails, Stopped!RequestFails
<1>4. Old!LoadState => Stopped!LoadState
  BY DEF Old!LoadState, Stopped!LoadState
<1>5. Old!StartAtBeginning => Stopped!StartAtBeginning
  BY DEF Old!StartAtBeginning, Stopped!StartAtBeginning
<1>6. Old!StartAtLatestSTH => Stopped!StartAtLatestSTH
  BY DEF Old!StartAtLatestSTH, Stopped!StartAtLatestSTH
<1>7. Old!LoadSTHs => Stopped!LoadSTHs
  BY DEF Old!LoadSTHs, Stopped!LoadSTHs
<1>8. Old!NothingToDownload => Stopped!NothingToDownload
  BY DEF Old!NothingToDownload, Stopped!NothingToDownload
<1>9. Old!StartDownload => Stopped!StartDownload
  BY DEF Old!StartDownload, Stopped!StartDownload
<1>10. Old!FinishEntry => Stopped!FinishEntry
  BY DEF Old!FinishEntry, Stopped!FinishEntry
<1>11. Old!FinishDownload => Stopped!FinishDownload
  BY DEF Old!FinishDownload, Stopped!FinishDownload
<1>12. Old!DownloadFails => Stopped!DownloadFails
  BY DEF Old!DownloadFails, Stopped!DownloadFails
<1>13. Old!DeferredSave => Stopped!DeferredSave
  BY DEF Old!DeferredSave, Stopped!DeferredSave
<1>14. Old!ProcessFails => Stopped!ProcessFails
  BY DEF Old!ProcessFails, Stopped!ProcessFails
<1>15. Old!StateCallFails => Stopped!StateCallFails
  BY DEF Old!StateCallFails, Stopped!StateCallFails
<1>16. ASSUME NEW h PROVE Old!GetSTH(h) => Stopped!GetSTH(h)
  BY DEF Old!GetSTH, Stopped!GetSTH
<1>17. ASSUME NEW h PROVE Old!PruneSTH(h) => Stopped!PruneSTH(h)
  BY DEF Old!PruneSTH, Stopped!PruneSTH
<1>18. ASSUME NEW h PROVE Old!VerifySTH(h) => Stopped!VerifySTH(h)
  BY DEF Old!VerifySTH, Stopped!VerifySTH
<1>19. ASSUME NEW h PROVE Old!RejectSTH(h) => Stopped!RejectSTH(h)
  BY DEF Old!RejectSTH, Stopped!RejectSTH
<1>20. ASSUME NEW leaf PROVE Old!ReceiveEntry(leaf) => Stopped!ReceiveEntry(leaf)
  BY DEF Old!ReceiveEntry, Stopped!ReceiveEntry
<1>21. Old!Heads = Stopped!Heads
  BY DEF Old!Heads, Stopped!Heads, Old!TreeHead, Stopped!TreeHead
<1> QED
  BY <1>1, <1>2, <1>3, <1>4, <1>5, <1>6, <1>7, <1>8, <1>9, <1>10, <1>11, <1>12, <1>13, <1>14, <1>15,
     <1>16, <1>17, <1>18, <1>19, <1>20, <1>21
  DEF Old!MonitorStep, Stopped!MonitorStep, Stopped!Next

-----------------------------------------------------------------------------
(* Steps of the two tasks. *)

\* The lemmas about one task, for the stopped one.
LEMMA OldTaskKeeps ==
  ASSUME Stopped!TypeOK, Stopped!TaskInv, KeptInv, Stopped!Next
  PROVE  /\ Stopped!TypeOK' /\ Stopped!TaskInv' /\ KeptInv'
         /\ processed \subseteq processed'
         /\ disk # NoState => disk' # NoState /\ start' = start
<1> USE LogAssumption DEF STH, Stopped!STH, LogState, Stopped!LogState
<1>1. Stopped!TypeOK'
  BY Stopped!NextType
<1>2. Stopped!TaskInv'
  BY Stopped!NextTask
<1>3. Stopped!KeptInv'
  BY <1>1, <1>2, Stopped!NextKept, SameFiles DEF Stopped!Base
<1>4. /\ processed \subseteq processed'
      /\ disk # NoState => disk' # NoState /\ start' = start
  BY Stopped!NextGrows
<1>5. KeptInv'
  BY <1>3 DEF KeptInv, Stopped!KeptInv, NoSTHForgotten, Stopped!NoSTHForgotten,
              ProcessedUpTo, Stopped!ProcessedUpTo
<1> QED BY <1>1, <1>2, <1>4, <1>5

\* What the stopped task needs of the files, while the new one works on them.
LEMMA OldTaskUndisturbed ==
  ASSUME TypeOK', TaskInv', disk' # NoState, Stopped!TypeOK, Stopped!TaskInv, UNCHANGED oldVars,
         start' = start, processed \subseteq processed'
  PROVE  Stopped!TypeOK' /\ Stopped!TaskInv'
<1> USE DEF oldVars, oldMem
<1>1. Stopped!TypeOK'
  BY SameFiles DEF TypeOK, Stopped!TypeOK
<1>2. UNCHANGED <<Stopped!memVars, oldPC, start>>
  BY DEF Stopped!memVars, Stopped!roundVars
<1>3. sthDir' \subseteq Stopped!Heads /\ Stopped!Audited(disk', start', processed')
  BY SameFiles DEF TaskInv
<1>4. Stopped!TaskInv'
  BY <1>2, <1>3, Stopped!TaskUndisturbed, LogAssumption DEF STH, Stopped!STH, LogState, Stopped!LogState
<1> QED BY <1>1, <1>4

\* A step of the stopped task keeps the invariant.
LEMMA OldStepKeeps == TwoInv /\ OldStep => TwoInv'
<1> SUFFICES ASSUME TwoInv, OldStep PROVE TwoInv'
  OBVIOUS
<1>1. /\ oldPC # "none" /\ disk # NoState /\ Stopped!TypeOK /\ Stopped!TaskInv
      /\ TypeOK /\ TaskInv /\ KeptInv
      /\ UNCHANGED <<memVars, pc, returned, cancelled>>
  BY DEF TwoInv, OldStep
<1>2. Stopped!Next
  BY SameSteps DEF OldStep
<1>3. /\ Stopped!TypeOK' /\ Stopped!TaskInv' /\ KeptInv'
      /\ processed \subseteq processed' /\ disk' # NoState /\ start' = start
  BY <1>1, <1>2, OldTaskKeeps
<1>4. sthDir' \subseteq Heads /\ Audited(disk', start', processed')
  BY <1>3, SameFiles DEF Stopped!TaskInv
<1>5. TaskInv'
  BY <1>1, <1>3, <1>4, TaskUndisturbed
<1>6. TypeOK'
  <2>1. /\ disk' \in LogState \cup {NoState} /\ sthDir' \subseteq STH
        /\ clock' \in Nat /\ badEntries' \in Nat /\ startAtEnd' \in BOOLEAN
        /\ start' \in Nat /\ created' \in Nat
        /\ processed' \subseteq (Nat \X Leaf) /\ heard' \subseteq (Nat \X Nat)
    BY <1>3, SameFiles DEF Stopped!TypeOK
  <2>2. UNCHANGED <<state, aliased, sths, shouldSaveState, latestSTH, startTime, downloadEnd, pc, returned, cancelled>>
    BY <1>1 DEF memVars, roundVars
  <2> QED BY <1>1, <2>1, <2>2 DEF TypeOK
<1> QED BY <1>3, <1>5, <1>6 DEF TwoInv

\* A step of the new task keeps the invariant.
LEMMA NewStepKeeps == TwoInv /\ NewStep => TwoInv'
<1> SUFFICES ASSUME TwoInv, NewStep PROVE TwoInv'
  OBVIOUS
<1>1. TypeOK /\ TaskInv /\ KeptInv /\ Next /\ UNCHANGED oldVars
  BY DEF TwoInv, NewStep, Next
<1>2. TypeOK' /\ TaskInv'
  BY <1>1, NextType, NextTask
<1>3. KeptInv'
  BY <1>1, <1>2, NextKept DEF Base
<1>4. /\ processed \subseteq processed'
      /\ disk # NoState => disk' # NoState /\ start' = start
  BY <1>1, NextGrows
<1>5. CASE oldPC = "none"
  BY <1>1, <1>2, <1>3, <1>5 DEF TwoInv, oldVars
<1>6. CASE oldPC # "none"
  BY <1>1, <1>2, <1>3, <1>4, <1>6, OldTaskUndisturbed DEF TwoInv
<1> QED BY <1>5, <1>6

\* Stopping a task and starting its successor keeps the invariant.
LEMMA ReplaceKeeps == TwoInv /\ Replace => TwoInv'
<1> SUFFICES ASSUME TwoInv, Replace PROVE TwoInv'
  OBVIOUS
<1> USE DEF diskVars, processVars, historyVars, Forget
<1>1. TypeOK /\ TaskInv /\ KeptInv /\ disk # NoState /\ UNCHANGED <<disk, sthDir, start, processed, heard>>
  BY DEF TwoInv, Replace
<1>2. TypeOK'
  BY <1>1 DEF Replace, TypeOK
<1>3. Audited(disk, start, processed)' /\ pc' = "idle" /\ sths' = {}
  BY <1>1 DEF TaskInv, Replace
<1>4. TaskInv'
  BY <1>1, <1>3 DEF TaskInv, InRound
<1>5. KeptInv'
  BY <1>1 DEF KeptInv, NoSTHForgotten, ProcessedUpTo
<1>6. Stopped!TypeOK'
  BY <1>1, SameFiles DEF Replace, TypeOK, Stopped!TypeOK
<1>7. /\ oldPC' = pc /\ oldState' = state /\ oldAliased' = aliased /\ oldSTHs' = sths /\ oldLatestSTH' = latestSTH
      /\ \A s, from, seen : Stopped!Audited(s, from, seen) <=> Audited(s, from, seen)
  BY SameFiles DEF Replace
<1>8. Stopped!TaskInv'
  <2>1. /\ Stopped!Audited(disk', start', processed')
        /\ oldPC' \in InRound => Stopped!Audited(oldState', start', processed')
    BY <1>1, <1>7 DEF TaskInv
  <2>2. Stopped!Audited(disk, start, processed)' /\ (oldPC' \in InRound => Stopped!Audited(oldState, start, processed)')
    BY <2>1
  <2> QED BY <1>1, <1>7, <2>2, SameFiles DEF TaskInv, Stopped!TaskInv
<1> QED BY <1>1, <1>2, <1>4, <1>5, <1>6, <1>8 DEF TwoInv

\* While a stopped task overlaps with its successor, for every log and however
\* their steps interleave, state.json describes a tree that was signed, verified
\* and processed, and no STH is forgotten (monitor.go:139-147, 192-206,
\* daemon.go:102-120).
THEOREM FilesSurvive == TwoSpec => []FilesSurviveOverlap
<1>1. TwoInit => TwoInv
  BY InitType, InitTask DEF TwoInit, TwoInv, Init, KeptInv, NoSTHForgotten
<1>2. TwoInv /\ [TwoNext]_taskVars => TwoInv'
  <2>1. TwoInv /\ UNCHANGED taskVars => TwoInv'
    <3> SUFFICES ASSUME TwoInv, UNCHANGED taskVars PROVE TwoInv'
      OBVIOUS
    <3>1. UNCHANGED vars /\ UNCHANGED oldVars
      BY DEF taskVars
    <3>2. /\ TypeOK' /\ TaskInv' /\ KeptInv'
      BY <3>1, NextType, NextTask, NextKept DEF TwoInv, Base
    <3> QED
      BY <3>1, <3>2, OldTaskUndisturbed
      DEF TwoInv, vars, oldVars, diskVars, historyVars
  <2> QED BY <2>1, OldStepKeeps, NewStepKeeps, ReplaceKeeps DEF TwoNext
<1>3. TwoInv => FilesSurviveOverlap
  BY DEF TwoInv, TaskInv, KeptInv, FilesSurviveOverlap
<1> QED BY <1>1, <1>2, <1>3, PTL DEF TwoSpec
=============================================================================
