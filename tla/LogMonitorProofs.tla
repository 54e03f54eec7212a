--------------------------- MODULE LogMonitorProofs ---------------------------
(***************************************************************************)
(* Proofs about LogMonitor, for every log, every set of bad STHs and every *)
(* value of the bounds: its audit invariant, that it implements Auditor,   *)
(* that the STHs on file are enough to find every entry that was not read, *)
(* and that LastSuccess is not set too early.  The last needs the one      *)
(* before, the order of the times involved, and that nobody adds to        *)
(* unverified_sths between LoadSTHs and the end of the round.              *)
(***************************************************************************)
EXTENDS LogMonitor, SequenceTheorems, TLAPS

-----------------------------------------------------------------------------
(* Trees and tree heads. *)

\* The tree of an STH that has one is a sequence of leaves of the stated size.
LEMMA TreeOfType ==
  ASSUME NEW h \in STH, HasTree(h)
  PROVE  TreeOf(h) \in Seq(Leaf) /\ Len(TreeOf(h)) = h.TreeSize
<1>1. h.TreeSize \in Nat /\ h.SHA256RootHash \in Seq(Leaf)
  BY DEF STH
<1>2. \A i \in 1..h.TreeSize : h.SHA256RootHash[i] \in Leaf
  BY <1>1 DEF HasTree
<1> QED
  BY <1>1, <1>2, SubSeqProperties DEF TreeOf

\* Every answer to get-sth is an STH.
LEMMA HeadsAreSTHs == Heads \subseteq STH
<1>1. ASSUME NEW n \in 0..Len(Log), NEW t \in Timestamp
      PROVE  TreeHead(n, t) \in STH
  <2>1. \A i \in 1..n : Log[i] \in Leaf
    BY LogAssumption
  <2>2. SubSeq(Log, 1, n) \in Seq(Leaf)
    BY <2>1, SubSeqProperties
  <2> QED
    BY <2>2 DEF TreeHead, STH
<1> QED
  BY <1>1, LogAssumption DEF Heads

\* Prefixes compose.
LEMMA PrefixTransitive ==
  ASSUME NEW s \in Seq(Leaf), NEW t \in Seq(Leaf), NEW u \in Seq(Leaf),
         IsPrefixOf(s, t), IsPrefixOf(t, u)
  PROVE  IsPrefixOf(s, u)
  BY DEF IsPrefixOf

\* Every sequence is a prefix of itself.
LEMMA PrefixReflexive ==
  ASSUME NEW s \in Seq(Leaf)
  PROVE  IsPrefixOf(s, s)
  BY DEF IsPrefixOf

\* A sequence is a prefix of the one Append makes of it.
LEMMA AppendExtends ==
  ASSUME NEW s \in Seq(Leaf), NEW x \in Leaf
  PROVE  /\ Append(s, x) \in Seq(Leaf)
         /\ IsPrefixOf(s, Append(s, x))
         /\ Len(Append(s, x)) = Len(s) + 1
         /\ Append(s, x)[Len(s) + 1] = x
  BY DEF IsPrefixOf

\* A verified root is the tree itself.
LEMMA RootIsTree ==
  ASSUME NEW h \in STH, h.TreeSize = Len(h.SHA256RootHash)
  PROVE  HasTree(h) /\ TreeOf(h) = h.SHA256RootHash
<1>1. h.SHA256RootHash \in Seq(Leaf)
  BY DEF STH
<1> QED
  BY <1>1, SubSeqFull DEF HasTree, TreeOf

-----------------------------------------------------------------------------
(* Operations on a LogState. *)

\* The trees the log signs are sequences of leaves.
LEMMA SignedTreesType == SignedTrees \subseteq Seq(Leaf)
  BY TreeOfType, HeadsAreSTHs DEF SignedTrees

\* The state of a new log is a LogState (monitor.go:103-115).
LEMMA NewStateType ==
  ASSUME NEW tree \in Seq(Leaf), NEW sth \in STH \cup {NoSTH}, NEW now \in Nat
  PROVE  NewState(tree, sth, now) \in LogState
  BY DEF NewState, LogState

\* Adding an entry gives a LogState (monitor.go:177).
LEMMA AddEntryType ==
  ASSUME NEW s \in LogState, NEW leaf \in Leaf
  PROVE  /\ AddEntry(s, leaf) \in LogState
         /\ AddEntry(s, leaf).DownloadPosition = Append(s.DownloadPosition, leaf)
         /\ AddEntry(s, leaf).VerifiedPosition =
              IF aliased THEN Append(s.DownloadPosition, leaf) ELSE s.VerifiedPosition
         /\ AddEntry(s, leaf).VerifiedSTH = s.VerifiedSTH
<1> DEFINE dl == Append(s.DownloadPosition, leaf)
           ver == IF aliased THEN dl ELSE s.VerifiedPosition
<1>1. dl \in Seq(Leaf) /\ ver \in Seq(Leaf)
  BY AppendExtends DEF LogState
<1>2. AddEntry(s, leaf) = [s EXCEPT !.DownloadPosition = dl, !.VerifiedPosition = ver]
  BY Zenon DEF AddEntry
<1> HIDE DEF dl, ver
<1>3. /\ AddEntry(s, leaf) \in LogState
      /\ AddEntry(s, leaf).DownloadPosition = dl
      /\ AddEntry(s, leaf).VerifiedPosition = ver
      /\ AddEntry(s, leaf).VerifiedSTH = s.VerifiedSTH
  BY <1>1, <1>2 DEF LogState
<1> QED
  BY <1>3 DEF dl, ver

\* Verifying an STH gives a LogState (monitor.go:192-193).
LEMMA VerifiedType ==
  ASSUME NEW s \in LogState, NEW h \in STH
  PROVE  /\ Verified(s, h) \in LogState
         /\ Verified(s, h).DownloadPosition = s.DownloadPosition
         /\ Verified(s, h).VerifiedPosition = s.DownloadPosition
         /\ Verified(s, h).VerifiedSTH = h
  BY DEF Verified, LogState

\* Rolling back gives a LogState (monitor.go:185).
LEMMA RollBackType ==
  ASSUME NEW s \in LogState
  PROVE  /\ RollBack(s) \in LogState
         /\ RollBack(s).DownloadPosition = s.VerifiedPosition
         /\ RollBack(s).VerifiedPosition = s.VerifiedPosition
         /\ RollBack(s).VerifiedSTH = s.VerifiedSTH
  BY DEF RollBack, LogState

\* Recording a success gives a LogState (monitor.go:220).
LEMMA SucceededType ==
  ASSUME NEW s \in LogState, startTime \in Nat
  PROVE  /\ Succeeded(s) \in LogState
         /\ Succeeded(s).DownloadPosition = s.DownloadPosition
         /\ Succeeded(s).VerifiedPosition = s.VerifiedPosition
         /\ Succeeded(s).VerifiedSTH = s.VerifiedSTH
  BY DEF Succeeded, LogState

\* The fields of a LogState.
LEMMA StateFields ==
  ASSUME NEW s \in LogState
  PROVE  /\ s.DownloadPosition \in Seq(Leaf) /\ s.VerifiedPosition \in Seq(Leaf)
         /\ s.VerifiedSTH \in STH \cup {NoSTH} /\ s.LastSuccess \in Nat
         /\ Size(s) \in Nat /\ s # NoState
  BY LogAssumption DEF LogState, Size

-----------------------------------------------------------------------------
(* Type correctness. *)

\* The initial state has the right types.
LEMMA InitType == Init => TypeOK
<1> SUFFICES ASSUME Init PROVE TypeOK
  OBVIOUS
<1>1. /\ aliased \in BOOLEAN /\ shouldSaveState \in BOOLEAN
      /\ startAtEnd \in BOOLEAN /\ cancelled \in BOOLEAN
  BY Zenon DEF Init
<1> QED
  BY <1>1 DEF Init, TypeOK

\* Every step keeps the types.
LEMMA NextType == TypeOK /\ TaskInv /\ [Next]_vars => TypeOK'
<1> SUFFICES ASSUME TypeOK, TaskInv, [Next]_vars
             PROVE  TypeOK'
  OBVIOUS
<1> USE DEF TypeOK, diskVars, memVars, roundVars, processVars, historyVars
<1>0. pc \in InRound => state \in LogState
  BY DEF TaskInv
<1>1. CASE BeginRound
  BY <1>1 DEF BeginRound
<1>2. CASE StopWhenIdle
  BY <1>2 DEF StopWhenIdle, ReturnEarly, Forget
<1>3. ASSUME NEW h \in Heads, GetSTH(h)
      PROVE  TypeOK'
  <2>1. h \in STH /\ h.TreeSize \in Nat
    BY HeadsAreSTHs DEF STH
  <2> QED
    BY <1>3, <2>1 DEF GetSTH
<1>4. CASE RequestFails
  <2>1. Forget /\ pc' \in {"idle", "stopped"} /\ returned' \in {"nil", "canceled"}
    BY <1>4 DEF RequestFails, ReturnEarly
  <2>2. UNCHANGED <<disk, sthDir, startAtEnd, cancelled, clock, badEntries,
                    start, created, processed, heard>>
    BY <1>4 DEF RequestFails
  <2> QED
    BY <2>1, <2>2 DEF Forget
<1>5. CASE LoadState
  BY <1>5 DEF LoadState
<1>6. CASE StartAtBeginning
  <2>1. <<>> \in Seq(Leaf) /\ NoSTH \in STH \cup {NoSTH} /\ startTime \in Nat
    OBVIOUS
  <2>2. NewState(<<>>, NoSTH, startTime) \in LogState
    BY <2>1, NewStateType
  <2> QED
    BY <1>6, <2>2, StateFields DEF StartAtBeginning, CreateState
<1>7. CASE StartAtLatestSTH
  <2>1. latestSTH \in STH /\ HasTree(latestSTH)
    BY <1>7, HeadsAreSTHs DEF StartAtLatestSTH, TaskInv
  <2>2. NewState(TreeOf(latestSTH), latestSTH, startTime) \in LogState
    BY <2>1, TreeOfType, NewStateType
  <2> QED
    BY <1>7, <2>2, StateFields DEF StartAtLatestSTH, CreateState
<1>8. CASE LoadSTHs
  BY <1>8 DEF LoadSTHs
<1>9. ASSUME NEW h \in sths, PruneSTH(h)
      PROVE  TypeOK'
  BY <1>9 DEF PruneSTH
<1>10. CASE NothingToDownload
  <2>1. Succeeded(state) \in LogState
    BY <1>0, <1>10, SucceededType DEF NothingToDownload, InRound
  <2> QED
    BY <1>10, <2>1 DEF NothingToDownload, Return
<1>11. CASE StartDownload
  <2>1. PICK h \in sths : downloadEnd' = h.TreeSize
    BY <1>11 DEF StartDownload, LastSTHs
  <2>2. downloadEnd' \in Nat
    BY <2>1 DEF STH
  <2> QED
    BY <1>11, <2>2 DEF StartDownload
<1>12. ASSUME NEW leaf \in Leaf, ReceiveEntry(leaf)
       PROVE  TypeOK'
  <2>1. state \in LogState /\ Size(state) + 1 \in Nat
    BY <1>0, <1>12, StateFields DEF ReceiveEntry, InRound
  <2>2. AddEntry(state, leaf) \in LogState
    BY <2>1, AddEntryType
  <2>3. badEntries' \in Nat
    BY <1>12 DEF ReceiveEntry
  <2>4. processed' \subseteq (Nat \X Leaf)
    BY <1>12, <2>1 DEF ReceiveEntry
  <2>5. shouldSaveState' \in BOOLEAN
    BY <1>12 DEF ReceiveEntry
  <2> QED
    BY <1>12, <2>2, <2>3, <2>4, <2>5 DEF ReceiveEntry
<1>13. ASSUME NEW h \in sths, VerifySTH(h)
       PROVE  TypeOK'
  <2>1. Verified(state, h) \in LogState
    BY <1>0, <1>13, VerifiedType DEF VerifySTH, InRound
  <2> QED
    BY <1>13, <2>1 DEF VerifySTH, Return
<1>14. ASSUME NEW h \in sths, RejectSTH(h)
       PROVE  TypeOK'
  <2>1. RollBack(state) \in LogState
    BY <1>0, <1>14, RollBackType DEF RejectSTH, InRound
  <2> QED
    BY <1>14, <2>1 DEF RejectSTH, Return
<1>15. CASE FinishEntry
  BY <1>15 DEF FinishEntry, Return
<1>16. CASE FinishDownload
  <2>1. Succeeded(state) \in LogState
    BY <1>0, <1>16, SucceededType DEF FinishDownload, InRound
  <2> QED
    BY <1>16, <2>1 DEF FinishDownload, Return
<1>17. CASE DownloadFails
  BY <1>17 DEF DownloadFails, Return
<1>18. CASE DeferredSave
  <2>1. Forget /\ pc' \in {"idle", "stopped"} /\ returned' \in {returned, "error"}
    BY <1>18 DEF DeferredSave, ReturnEarly
  <2>2. disk' \in {disk, state}
    BY <1>18 DEF DeferredSave
  <2> QED
    BY <1>18, <2>1, <2>2 DEF DeferredSave, Forget
<1>19. CASE ProcessFails
  BY <1>19 DEF ProcessFails, Return
<1>20. CASE StateCallFails
  BY <1>20 DEF StateCallFails, ReturnEarly, Forget
<1>21. CASE Cancel
  BY <1>21 DEF Cancel
<1>22. CASE Crash
  BY <1>22 DEF Crash, Forget
<1>23. CASE Restart
  BY <1>23 DEF Restart
<1>24. CASE Tick
  BY <1>24 DEF Tick
<1>25. CASE UNCHANGED vars
  BY <1>25 DEF vars
<1> QED
  BY <1>1, <1>2, <1>3, <1>4, <1>5, <1>6, <1>7, <1>8, <1>9, <1>10, <1>11, <1>12, <1>13,
     <1>14, <1>15, <1>16, <1>17, <1>18, <1>19, <1>20, <1>21, <1>22, <1>23, <1>24, <1>25 DEF Next, MonitorStep

-----------------------------------------------------------------------------
(* What the operations on a LogState do to an audit. *)

\* The tree an audited state trusts is a sequence of leaves.
LEMMA TrustedTreeType ==
  ASSUME NEW s, NEW from, NEW seen, Audited(s, from, seen)
  PROVE  TrustedTree(s) \in Seq(Leaf)
<1>1. TrustedTree(s) \in SignedTrees \cup {<<>>}
  BY DEF Audited
<1>2. <<>> \in Seq(Leaf)
  OBVIOUS
<1> QED
  BY <1>1, <1>2, SignedTreesType, Zenon

\* A state with the same trees stays audited when more entries are processed.
LEMMA AuditedKept ==
  ASSUME NEW s \in LogState, NEW t \in LogState, NEW from \in Nat, NEW seen, NEW more,
         Audited(s, from, seen), seen \subseteq more,
         t.DownloadPosition = s.DownloadPosition,
         t.VerifiedPosition = s.VerifiedPosition, t.VerifiedSTH = s.VerifiedSTH
  PROVE  Audited(t, from, more) /\ TrustedTree(t) = TrustedTree(s)
<1>1. TrustedTree(t) = TrustedTree(s)
  BY StateFields DEF TrustedTree
<1>2. Size(t) = Size(s)
  BY DEF Size
<1> QED
  BY <1>1, <1>2 DEF Audited

\* The state of a new log is audited (monitor.go:103-115).
LEMMA AuditedNew ==
  ASSUME NEW tree \in Seq(Leaf), NEW sth \in STH \cup {NoSTH}, NEW now \in Nat, NEW seen,
         IF sth = NoSTH THEN tree = <<>> ELSE sth \in Heads /\ HasTree(sth) /\ tree = TreeOf(sth)
  PROVE  LET s == NewState(tree, sth, now) IN
           /\ Audited(s, Len(tree), seen)
           /\ TrustedTree(s) = tree
<1> DEFINE s == NewState(tree, sth, now)
<1>1. s \in LogState /\ s # NoState
  BY NewStateType, StateFields
<1>2. s.DownloadPosition = tree /\ s.VerifiedPosition = tree /\ s.VerifiedSTH = sth
  BY DEF NewState
<1> HIDE DEF s
<1>3. TrustedTree(s) = tree /\ tree \in SignedTrees \cup {<<>>}
  BY <1>1, <1>2 DEF TrustedTree, SignedTrees
<1>4. IsPrefixOf(tree, tree)
  BY PrefixReflexive
<1>5. \A i \in (Len(tree) + 1)..Len(tree) : FALSE
  OBVIOUS
<1>6. Audited(s, Len(tree), seen) /\ TrustedTree(s) = tree
  BY <1>2, <1>3, <1>4, <1>5 DEF Audited, Size
<1> QED
  BY <1>6 DEF s

\* Adding an entry that was processed keeps a state audited (monitor.go:173-177).
LEMMA AuditedAdd ==
  ASSUME NEW s \in LogState, NEW t \in LogState, NEW from \in Nat, NEW seen, NEW leaf \in Leaf,
         Audited(s, from, seen),
         t.DownloadPosition = Append(s.DownloadPosition, leaf),
         t.VerifiedPosition \in {s.VerifiedPosition, t.DownloadPosition},
         t.VerifiedSTH = s.VerifiedSTH
  PROVE  /\ Audited(t, from, seen \cup {<<Size(s) + 1, leaf>>})
         /\ TrustedTree(t) = TrustedTree(s)
<1>1. TrustedTree(t) = TrustedTree(s) /\ TrustedTree(s) \in Seq(Leaf)
  BY StateFields, TrustedTreeType DEF TrustedTree
<1>2. /\ IsPrefixOf(s.DownloadPosition, t.DownloadPosition)
      /\ Size(t) = Size(s) + 1 /\ t.DownloadPosition[Size(s) + 1] = leaf
      /\ s.DownloadPosition \in Seq(Leaf) /\ s.VerifiedPosition \in Seq(Leaf)
      /\ t.DownloadPosition \in Seq(Leaf) /\ t.VerifiedPosition \in Seq(Leaf)
  BY AppendExtends, StateFields DEF Size
<1>3. IsPrefixOf(s.VerifiedPosition, t.DownloadPosition)
  BY <1>2, PrefixTransitive DEF Audited
<1>4. IsPrefixOf(t.VerifiedPosition, t.DownloadPosition)
  BY <1>2, <1>3, PrefixReflexive
<1>5. IsPrefixOf(TrustedTree(s), s.VerifiedPosition)
  BY DEF Audited
<1>6. IsPrefixOf(TrustedTree(s), t.VerifiedPosition)
  BY <1>1, <1>2, <1>3, <1>5, PrefixTransitive
<1>7. \A i \in (from + 1)..Size(t) :
         <<i, t.DownloadPosition[i]>> \in seen \cup {<<Size(s) + 1, leaf>>}
  <2> SUFFICES ASSUME NEW i \in (from + 1)..Size(t)
               PROVE  <<i, t.DownloadPosition[i]>> \in seen \cup {<<Size(s) + 1, leaf>>}
    OBVIOUS
  <2>1. CASE i = Size(s) + 1
    BY <1>2, <2>1
  <2>2. CASE i # Size(s) + 1
    <3>1. i \in (from + 1)..Size(s) /\ i \in 1..Len(s.DownloadPosition)
      BY <1>2, <2>2, StateFields DEF Size
    <3>2. t.DownloadPosition[i] = s.DownloadPosition[i]
      BY <1>2, <3>1 DEF IsPrefixOf
    <3> QED
      BY <3>1, <3>2 DEF Audited
  <2> QED
    BY <2>1, <2>2
<1> QED
  BY <1>1, <1>4, <1>6, <1>7 DEF Audited

\* Verifying a signed STH whose root matches keeps a state audited (monitor.go:182-193).
LEMMA AuditedVerified ==
  ASSUME NEW s \in LogState, NEW t \in LogState, NEW from \in Nat, NEW seen, NEW h \in Heads,
         Audited(s, from, seen),
         h.SHA256RootHash = s.DownloadPosition, h.TreeSize = Size(s),
         t.DownloadPosition = s.DownloadPosition,
         t.VerifiedPosition = s.DownloadPosition, t.VerifiedSTH = h
  PROVE  Audited(t, from, seen) /\ IsPrefixOf(TrustedTree(s), TrustedTree(t))
<1>1. h \in STH /\ h # NoSTH /\ t # NoState
  BY HeadsAreSTHs, StateFields, LogAssumption
<1>2. HasTree(h) /\ TreeOf(h) = s.DownloadPosition
  BY <1>1, RootIsTree DEF Size
<1>3. TrustedTree(t) = s.DownloadPosition /\ TrustedTree(t) \in SignedTrees
  BY <1>1, <1>2 DEF TrustedTree, SignedTrees
<1>4. IsPrefixOf(s.DownloadPosition, s.DownloadPosition)
  BY StateFields, PrefixReflexive
<1>5. IsPrefixOf(TrustedTree(s), s.DownloadPosition)
  BY StateFields, TrustedTreeType, PrefixTransitive DEF Audited
<1> QED
  BY <1>3, <1>4, <1>5 DEF Audited, Size

\* Rolling back keeps a state audited (monitor.go:185).
LEMMA AuditedRolledBack ==
  ASSUME NEW s \in LogState, NEW t \in LogState, NEW from \in Nat, NEW seen,
         Audited(s, from, seen),
         t.DownloadPosition = s.VerifiedPosition,
         t.VerifiedPosition = s.VerifiedPosition, t.VerifiedSTH = s.VerifiedSTH
  PROVE  Audited(t, from, seen) /\ TrustedTree(t) = TrustedTree(s)
<1>1. TrustedTree(t) = TrustedTree(s)
  BY StateFields DEF TrustedTree
<1>2. IsPrefixOf(s.VerifiedPosition, s.VerifiedPosition)
  BY StateFields, PrefixReflexive
<1>3. \A i \in (from + 1)..Size(t) : <<i, t.DownloadPosition[i]>> \in seen
  <2> SUFFICES ASSUME NEW i \in (from + 1)..Size(t)
               PROVE  <<i, t.DownloadPosition[i]>> \in seen
    OBVIOUS
  <2>1. /\ s.VerifiedPosition \in Seq(Leaf) /\ s.DownloadPosition \in Seq(Leaf)
        /\ IsPrefixOf(s.VerifiedPosition, s.DownloadPosition)
    BY StateFields DEF Audited
  <2>2. i \in 1..Len(s.VerifiedPosition) /\ i \in (from + 1)..Size(s)
    BY <2>1 DEF Size, IsPrefixOf
  <2>3. t.DownloadPosition[i] = s.DownloadPosition[i]
    BY <2>1, <2>2 DEF IsPrefixOf
  <2> QED
    BY <2>2, <2>3 DEF Audited
<1> QED
  BY <1>1, <1>2, <1>3 DEF Audited

-----------------------------------------------------------------------------
(* The invariant of one task. *)

\* The parts of TaskInv that an action outside a round, or one that does not
\* touch the trees, leaves alone.
LEMMA TaskInvKept ==
  ASSUME TypeOK, TaskInv,
         UNCHANGED <<disk, start, processed>>,
         sthDir' \subseteq Heads, sths' \subseteq Heads,
         pc' = "loadState" => latestSTH' \in Heads,
         pc' \in InRound => /\ pc \in InRound
                            /\ UNCHANGED <<state, aliased>>
  PROVE  TaskInv'
<1>1. disk' # NoState => Audited(disk, start, processed)'
  BY DEF TaskInv
<1>2. pc' \in InRound => Audited(state, start, processed)'
  BY DEF TaskInv
<1>3. pc' \in InRound =>
        /\ disk' # NoState /\ state' # NoState
        /\ aliased' => state'.VerifiedPosition = state'.DownloadPosition
  BY DEF TaskInv
<1> QED
  BY <1>1, <1>2, <1>3 DEF TaskInv

\* The state in memory moves on, the one on disk does not.
LEMMA TaskInvMemory ==
  ASSUME TypeOK, TaskInv, TypeOK',
         pc \in InRound, pc' \in InRound,
         UNCHANGED <<disk, start>>, processed \subseteq processed',
         sthDir' \subseteq Heads, sths' \subseteq Heads,
         state' # NoState, Audited(state', start, processed'),
         aliased' => state'.VerifiedPosition = state'.DownloadPosition
  PROVE  TaskInv'
<1>1. disk \in LogState /\ start \in Nat /\ Audited(disk, start, processed)
  BY DEF TaskInv, TypeOK
<1>2. Audited(disk, start, processed')
  BY <1>1, AuditedKept
<1>4. pc' # "loadState"
  BY DEF InRound
<1>5. Audited(disk, start, processed)' /\ Audited(state, start, processed)'
  BY <1>2
<1> QED
  BY <1>1, <1>4, <1>5 DEF TaskInv

\* The state in memory goes to disk.
LEMMA TaskInvSave ==
  ASSUME TypeOK, TaskInv, TypeOK',
         pc \in InRound, pc' # "loadState", disk' # NoState,
         UNCHANGED <<start, processed>>,
         sthDir' \subseteq Heads, sths' \subseteq Heads,
         Audited(disk', start, processed),
         pc' \in InRound => /\ state' = disk'
                            /\ aliased' => state'.VerifiedPosition = state'.DownloadPosition
  PROVE  TaskInv'
<1>1. Audited(disk, start, processed)'
  OBVIOUS
<1>2. pc' \in InRound => Audited(state, start, processed)'
  OBVIOUS
<1> QED
  BY <1>1, <1>2 DEF TaskInv

\* The invariant of a task holds initially.
LEMMA InitTask == Init => TaskInv
  BY DEF Init, TaskInv, InRound

\* Every step keeps the invariant of a task.
LEMMA NextTask == TypeOK /\ TaskInv /\ [Next]_vars => TaskInv'
<1> SUFFICES ASSUME TypeOK, TaskInv, [Next]_vars
             PROVE  TaskInv'
  OBVIOUS
<1> USE DEF diskVars, memVars, roundVars, processVars, historyVars
<1>a. TypeOK'
  BY NextType
<1>b. sthDir \subseteq Heads /\ sths \subseteq Heads
  BY DEF TaskInv
<1>c. pc \in InRound => /\ state \in LogState /\ disk \in LogState
                        /\ start \in Nat /\ startTime \in Nat
                        /\ Audited(state, start, processed)
                        /\ TrustedTree(state) \in Seq(Leaf)
  BY TrustedTreeType DEF TaskInv, TypeOK
<1>1. CASE BeginRound
  BY <1>1, <1>b, TaskInvKept DEF BeginRound, InRound
<1>2. CASE StopWhenIdle
  BY <1>2, <1>b, TaskInvKept DEF StopWhenIdle, ReturnEarly, Forget, InRound
<1>3. ASSUME NEW h \in Heads, GetSTH(h)
      PROVE  TaskInv'
  <2>1. sthDir' \subseteq Heads
    BY <1>3, <1>b DEF GetSTH
  <2> QED
    BY <1>3, <1>b, <2>1, TaskInvKept DEF GetSTH, InRound
<1>4. CASE RequestFails
  <2>1. Forget /\ pc' \in {"idle", "stopped"}
    BY <1>4 DEF RequestFails, ReturnEarly
  <2> QED
    BY <1>4, <1>b, <2>1, TaskInvKept DEF RequestFails, Forget, InRound
<1>5. CASE LoadState
  <2>1. /\ UNCHANGED <<disk, start, processed, sthDir, sths>>
        /\ disk # NoState /\ state' = disk /\ aliased' = FALSE /\ pc' = "loadSTHs"
    BY <1>5 DEF LoadState
  <2>2. Audited(disk, start, processed)
    BY <2>1 DEF TaskInv
  <2>3. Audited(disk, start, processed)' /\ Audited(state, start, processed)'
    BY <2>1, <2>2
  <2> QED
    BY <1>b, <2>1, <2>3 DEF TaskInv, InRound
<1>6. ASSUME NEW tree \in Seq(Leaf), NEW sth \in STH \cup {NoSTH}, NEW shared \in BOOLEAN,
             CreateState(NewState(tree, sth, startTime), shared),
             IF sth = NoSTH THEN tree = <<>>
             ELSE sth \in Heads /\ HasTree(sth) /\ tree = TreeOf(sth)
      PROVE  TaskInv'
  <2> DEFINE s == NewState(tree, sth, startTime)
  <2>1. /\ disk' = s /\ state' = s /\ start' = Len(tree) /\ pc' = "loadSTHs"
        /\ UNCHANGED <<processed, sthDir, sths>>
    BY <1>6 DEF CreateState, NewState, Size
  <2>2. s \in LogState /\ s # NoState /\ s.VerifiedPosition = s.DownloadPosition
    BY NewStateType, StateFields DEF NewState, TypeOK
  <2>3. Audited(s, Len(tree), processed) /\ TrustedTree(s) = tree
    BY <1>6, AuditedNew DEF TypeOK
  <2> HIDE DEF s
  <2>4. Audited(disk, start, processed)' /\ Audited(state, start, processed)'
    BY <2>1, <2>3
  <2> QED
    BY <1>b, <2>1, <2>2, <2>4 DEF TaskInv, InRound
<1>7. CASE StartAtBeginning
  <2>1. <<>> \in Seq(Leaf)
    OBVIOUS
  <2> QED
    BY <1>6, <1>7, <2>1 DEF StartAtBeginning
<1>8. CASE StartAtLatestSTH
  <2>1. latestSTH \in Heads /\ latestSTH \in STH /\ latestSTH # NoSTH /\ HasTree(latestSTH)
    BY <1>8, HeadsAreSTHs, LogAssumption DEF StartAtLatestSTH, TaskInv
  <2>2. TreeOf(latestSTH) \in Seq(Leaf)
    BY <2>1, TreeOfType
  <2> QED
    BY <1>6, <1>8, <2>1, <2>2 DEF StartAtLatestSTH
<1>9. CASE LoadSTHs
  BY <1>9, <1>b, TaskInvKept DEF LoadSTHs, InRound
<1>10. ASSUME NEW h \in sths, PruneSTH(h)
       PROVE  TaskInv'
  <2>1. sthDir' \subseteq Heads /\ sths' \subseteq Heads
    BY <1>10, <1>b DEF PruneSTH
  <2> QED
    BY <1>10, <2>1, TaskInvKept DEF PruneSTH, InRound
<1>11. ASSUME pc \in InRound, pc' = "deferred", state' = Succeeded(state),
              UNCHANGED <<diskVars, aliased, sths, start, processed>>
       PROVE  TaskInv'
  <2>1. /\ state' \in LogState /\ state' # NoState
        /\ state'.DownloadPosition = state.DownloadPosition
        /\ state'.VerifiedPosition = state.VerifiedPosition
        /\ state'.VerifiedSTH = state.VerifiedSTH
    BY <1>11, <1>c, SucceededType, StateFields
  <2>2. Audited(state', start, processed) /\ TrustedTree(state') = TrustedTree(state)
    BY <1>11, <1>c, <2>1, AuditedKept
  <2>4. aliased' => state'.VerifiedPosition = state'.DownloadPosition
    BY <1>11, <2>1 DEF TaskInv
  <2>5. Audited(state', start, processed')
    BY <1>11, <2>2
  <2> QED
    BY <1>11, <1>a, <1>b, <2>1, <2>4, <2>5, TaskInvMemory DEF InRound
<1>12. CASE NothingToDownload
  BY <1>11, <1>12 DEF NothingToDownload, Return, InRound
<1>13. CASE StartDownload
  BY <1>13, <1>b, TaskInvKept DEF StartDownload, InRound
<1>14. ASSUME NEW leaf \in Leaf, ReceiveEntry(leaf)
       PROVE  TaskInv'
  <2>1. /\ pc \in InRound /\ pc' \in InRound /\ state' = AddEntry(state, leaf)
        /\ processed' = processed \cup {<<Size(state) + 1, leaf>>}
        /\ UNCHANGED <<disk, start, sthDir, sths, aliased>>
    BY <1>14 DEF ReceiveEntry, InRound
  <2>2. /\ state' \in LogState /\ state' # NoState
        /\ state'.DownloadPosition = Append(state.DownloadPosition, leaf)
        /\ state'.VerifiedPosition =
             IF aliased THEN Append(state.DownloadPosition, leaf) ELSE state.VerifiedPosition
        /\ state'.VerifiedSTH = state.VerifiedSTH
    BY <1>c, <2>1, AddEntryType, StateFields
  <2>3. Audited(state', start, processed') /\ TrustedTree(state') = TrustedTree(state)
    BY <1>c, <2>1, <2>2, AuditedAdd
  <2>5. aliased' => state'.VerifiedPosition = state'.DownloadPosition
    BY <2>1, <2>2
  <2> QED
    BY <1>a, <1>b, <2>1, <2>2, <2>3, <2>5, TaskInvMemory
<1>15. ASSUME NEW h \in sths, VerifySTH(h)
       PROVE  TaskInv'
  <2>1. /\ pc \in InRound /\ pc' \in InRound /\ state' = Verified(state, h)
        /\ UNCHANGED <<disk, start, processed>>
        /\ h.TreeSize = Size(state) /\ h.SHA256RootHash = state.DownloadPosition
    BY <1>15 DEF VerifySTH, Return, InRound, IsNext, RootMatches
  <2>2. sthDir' \subseteq Heads /\ sths' \subseteq Heads
    BY <1>15, <1>b DEF VerifySTH
  <2>3. h \in Heads /\ h \in STH
    BY <1>b, HeadsAreSTHs
  <2>4. /\ state' \in LogState /\ state' # NoState
        /\ state'.DownloadPosition = state.DownloadPosition
        /\ state'.VerifiedPosition = state.DownloadPosition
        /\ state'.VerifiedSTH = h
    BY <1>c, <2>1, <2>3, VerifiedType, StateFields
  <2>5. Audited(state', start, processed)
    BY <1>c, <2>1, <2>3, <2>4, AuditedVerified
  <2>6. Audited(state', start, processed')
    BY <2>1, <2>5
  <2> QED
    BY <1>a, <2>1, <2>2, <2>4, <2>6, TaskInvMemory
<1>16. ASSUME NEW h \in sths, RejectSTH(h)
       PROVE  TaskInv'
  <2>1. /\ pc \in InRound /\ pc' = "deferred" /\ state' = RollBack(state)
        /\ UNCHANGED <<start, processed, sthDir, sths>>
        /\ disk' \in {disk, state'}
    BY <1>16 DEF RejectSTH, Return, InRound
  <2>2. /\ state' \in LogState /\ state' # NoState
        /\ state'.DownloadPosition = state.VerifiedPosition
        /\ state'.VerifiedPosition = state.VerifiedPosition
        /\ state'.VerifiedSTH = state.VerifiedSTH
    BY <1>c, <2>1, RollBackType, StateFields
  <2>3. Audited(state', start, processed) /\ TrustedTree(state') = TrustedTree(state)
    BY <1>c, <2>1, <2>2, AuditedRolledBack
  <2>4. CASE disk' = disk
    <3>2. Audited(state', start, processed')
      BY <2>1, <2>3
    <3> QED
      BY <1>a, <1>b, <2>1, <2>2, <2>4, <3>2, TaskInvMemory DEF InRound
  <2>5. CASE disk' = state'
    BY <1>a, <1>b, <2>1, <2>2, <2>3, <2>5, TaskInvSave
  <2> QED
    BY <2>1, <2>4, <2>5
<1>17. CASE FinishEntry
  <2>1. /\ pc \in InRound /\ pc' \in InRound
        /\ UNCHANGED <<start, processed, sthDir, sths, state, aliased>>
        /\ disk' \in {disk, state}
    BY <1>17 DEF FinishEntry, Return, InRound
  <2>2. CASE disk' = disk
    BY <1>b, <2>1, <2>2, TaskInvKept DEF InRound
  <2>3. CASE disk' = state
    <3>1. Audited(disk', start, processed) /\ disk' # NoState /\ pc' # "loadState"
      BY <1>c, <2>1, <2>3, StateFields DEF InRound
    <3>2. aliased' => state'.VerifiedPosition = state'.DownloadPosition
      BY <2>1 DEF TaskInv
    <3> QED
      BY <1>a, <1>b, <2>1, <2>3, <3>1, <3>2, TaskInvSave
  <2> QED
    BY <2>1, <2>2, <2>3
<1>18. CASE FinishDownload
  BY <1>11, <1>18 DEF FinishDownload, Return, InRound
<1>19. CASE DownloadFails
  BY <1>19, <1>b, TaskInvKept DEF DownloadFails, Return, InRound
<1>20. CASE DeferredSave
  <2>1. /\ pc \in InRound /\ pc' \in {"idle", "stopped"} /\ sths' = {}
        /\ UNCHANGED <<start, processed, sthDir>>
        /\ disk' \in {disk, state}
    BY <1>20 DEF DeferredSave, ReturnEarly, Forget, InRound
  <2>2. CASE disk' = disk
    BY <1>b, <2>1, <2>2, TaskInvKept DEF InRound
  <2>3. CASE disk' = state
    <3>1. Audited(disk', start, processed) /\ disk' # NoState
      BY <1>c, <2>1, <2>3, StateFields
    <3> QED
      BY <1>a, <1>b, <2>1, <3>1, TaskInvSave DEF InRound
  <2> QED
    BY <2>1, <2>2, <2>3
<1>21. CASE ProcessFails
  BY <1>21, <1>b, TaskInvKept DEF ProcessFails, Return, InRound
<1>22. CASE StateCallFails
  BY <1>22, <1>b, TaskInvKept DEF StateCallFails, ReturnEarly, Forget, InRound
<1>23. CASE Cancel
  BY <1>23, <1>b, TaskInvKept DEF Cancel, TaskInv
<1>24. CASE Crash
  BY <1>24, <1>b, TaskInvKept DEF Crash, Forget, InRound
<1>25. CASE Restart
  BY <1>25, <1>b, TaskInvKept DEF Restart, InRound
<1>26. CASE Tick
  BY <1>26, <1>b, TaskInvKept DEF Tick, TaskInv
<1>27. CASE UNCHANGED vars
  BY <1>27, <1>b, TaskInvKept DEF vars, TaskInv
<1> QED
  BY <1>1, <1>2, <1>3, <1>4, <1>5, <1>7, <1>8, <1>9, <1>10, <1>12, <1>13, <1>14, <1>15,
     <1>16, <1>17, <1>18, <1>19, <1>20, <1>21, <1>22, <1>23, <1>24, <1>25, <1>26, <1>27
     DEF Next, MonitorStep

\* Processed entries stay processed, and once there is a state.json there always
\* is one, with the same starting point.
LEMMA NextGrows ==
  ASSUME TypeOK, TaskInv, [Next]_vars
  PROVE  /\ processed \subseteq processed'
         /\ disk # NoState => disk' # NoState /\ start' = start
<1> USE DEF diskVars, memVars, roundVars, processVars, historyVars
<1>0. pc \in InRound => state # NoState /\ RollBack(state) # NoState
  BY RollBackType, StateFields DEF TaskInv, TypeOK
<1>1. CASE BeginRound \/ StopWhenIdle \/ RequestFails \/ LoadState \/ LoadSTHs
  BY <1>1 DEF BeginRound, StopWhenIdle, RequestFails, LoadState, LoadSTHs
<1>2. ASSUME NEW h \in Heads, GetSTH(h)
      PROVE  UNCHANGED <<disk, start, processed>>
  BY <1>2 DEF GetSTH
<1>3. CASE StartAtBeginning \/ StartAtLatestSTH
  BY <1>3 DEF StartAtBeginning, StartAtLatestSTH, CreateState
<1>4. ASSUME NEW h \in sths, PruneSTH(h) \/ VerifySTH(h)
      PROVE  UNCHANGED <<disk, start, processed>>
  BY <1>4 DEF PruneSTH, VerifySTH
<1>5. CASE NothingToDownload \/ StartDownload \/ FinishDownload \/ DownloadFails \/ ProcessFails
  BY <1>5 DEF NothingToDownload, StartDownload, FinishDownload, DownloadFails, ProcessFails
<1>6. ASSUME NEW leaf \in Leaf, ReceiveEntry(leaf)
      PROVE  UNCHANGED <<disk, start>> /\ processed \subseteq processed'
  BY <1>6 DEF ReceiveEntry
<1>7. ASSUME NEW h \in sths, RejectSTH(h)
      PROVE  UNCHANGED <<start, processed>> /\ (disk' = disk \/ disk' # NoState)
  BY <1>0, <1>7 DEF RejectSTH, InRound
<1>8. CASE FinishEntry \/ DeferredSave
  <2>1. /\ pc \in InRound /\ UNCHANGED <<start, processed>> /\ disk' \in {disk, state}
    BY <1>8 DEF FinishEntry, DeferredSave, InRound
  <2> QED
    BY <1>0, <2>1
<1>9. CASE StateCallFails \/ Cancel \/ Crash \/ Restart \/ Tick \/ UNCHANGED vars
  BY <1>9 DEF StateCallFails, Cancel, Crash, Restart, Tick, vars
<1> QED
  BY <1>1, <1>2, <1>3, <1>4, <1>5, <1>6, <1>7, <1>8, <1>9 DEF Next, MonitorStep

\* A task is not disturbed when somebody else processes entries and writes an
\* audited state and signed STHs.
LEMMA TaskUndisturbed ==
  ASSUME TypeOK, TaskInv, UNCHANGED <<memVars, pc, start>>,
         processed \subseteq processed', sthDir' \subseteq Heads,
         disk' # NoState, Audited(disk', start', processed')
  PROVE  TaskInv'
<1>1. pc \in InRound => state \in LogState /\ Audited(state, start, processed) /\ start \in Nat
  BY DEF TypeOK, TaskInv
<1>2. pc \in InRound => Audited(state, start, processed')
  BY <1>1, AuditedKept
<1>3. /\ sths' = sths /\ latestSTH' = latestSTH /\ state' = state /\ aliased' = aliased
      /\ pc' = pc /\ start' = start
  BY DEF memVars, roundVars
<1>4. Audited(disk, start, processed)' /\ (pc' \in InRound => Audited(state, start, processed)')
  BY <1>2, <1>3
<1> QED
  BY <1>3, <1>4 DEF TaskInv

-----------------------------------------------------------------------------
(* The audit invariant: what is in memory trusts no less than what is on disk. *)

\* A step within a round that saves nothing, or what it holds afterwards, and
\* trusts no less than before.
LEMMA TrustStays ==
  ASSUME TypeOK, AuditInv, TaskInv', pc \in InRound, pc' \in InRound,
         disk' \in {disk, state'}, IsPrefixOf(TrustedTree(state), TrustedTree(state'))
  PROVE  IsPrefixOf(TrustedTree(disk'), TrustedTree(state'))
<1>1. /\ Audited(disk, start, processed) /\ Audited(state, start, processed)
      /\ IsPrefixOf(TrustedTree(disk), TrustedTree(state)) /\ Audited(state', start', processed')
  BY DEF AuditInv, TaskInv
<1>2. /\ TrustedTree(disk) \in Seq(Leaf) /\ TrustedTree(state) \in Seq(Leaf)
      /\ TrustedTree(state') \in Seq(Leaf)
  BY <1>1, TrustedTreeType
<1>3. CASE disk' = disk
  BY <1>1, <1>2, <1>3, PrefixTransitive
<1>4. CASE disk' = state'
  BY <1>2, <1>4, PrefixReflexive
<1> QED
  BY <1>3, <1>4

\* Every step keeps the audit invariant.
LEMMA NextAudit == TypeOK /\ AuditInv /\ [Next]_vars => AuditInv'
<1> SUFFICES ASSUME TypeOK, AuditInv, [Next]_vars, pc' \in InRound
             PROVE  IsPrefixOf(TrustedTree(disk'), TrustedTree(state'))
  BY NextTask DEF AuditInv
<1> USE DEF diskVars, memVars, roundVars, processVars, historyVars
<1>a. TypeOK' /\ TaskInv' /\ TaskInv
  BY NextType, NextTask DEF AuditInv
<1>b. pc \in InRound => /\ state \in LogState /\ startTime \in Nat /\ start \in Nat
                        /\ Audited(state, start, processed) /\ TrustedTree(state) \in Seq(Leaf)
  BY <1>a, TrustedTreeType DEF TaskInv, TypeOK
<1>c. /\ state' \in LogState /\ Audited(state', start', processed')
      /\ TrustedTree(state') \in Seq(Leaf)
  BY <1>a, TrustedTreeType DEF TaskInv, TypeOK
<1>d. ASSUME pc \in InRound, disk' \in {disk, state'}, state'.VerifiedSTH = state.VerifiedSTH
      PROVE  IsPrefixOf(TrustedTree(disk'), TrustedTree(state'))
  <2>1. TrustedTree(state') = TrustedTree(state)
    BY <1>b, <1>c, <1>d, StateFields DEF TrustedTree
  <2>2. IsPrefixOf(TrustedTree(state), TrustedTree(state'))
    BY <1>b, <1>d, <2>1, PrefixReflexive
  <2> QED
    BY <1>a, <1>d, <2>2, TrustStays
<1>1. CASE LoadState \/ StartAtBeginning \/ StartAtLatestSTH
  <2>1. disk' = state'
    BY <1>1 DEF LoadState, StartAtBeginning, StartAtLatestSTH, CreateState
  <2> QED
    BY <1>c, <2>1, PrefixReflexive
<1>2. CASE LoadSTHs \/ StartDownload \/ FinishEntry \/ DownloadFails \/ ProcessFails
  <2>1. pc \in InRound /\ state' = state /\ disk' \in {disk, state'}
    BY <1>2 DEF LoadSTHs, StartDownload, FinishEntry, DownloadFails, ProcessFails, InRound
  <2> QED
    BY <1>d, <2>1
<1>3. ASSUME NEW h \in sths, PruneSTH(h)
      PROVE  IsPrefixOf(TrustedTree(disk'), TrustedTree(state'))
  BY <1>3, <1>d DEF PruneSTH, InRound
<1>4. CASE NothingToDownload \/ FinishDownload
  <2>1. pc \in InRound /\ state' = Succeeded(state) /\ disk' = disk
    BY <1>4 DEF NothingToDownload, FinishDownload, InRound
  <2> QED
    BY <1>b, <1>d, <2>1, SucceededType
<1>5. ASSUME NEW leaf \in Leaf, ReceiveEntry(leaf)
      PROVE  IsPrefixOf(TrustedTree(disk'), TrustedTree(state'))
  <2>1. pc \in InRound /\ state' = AddEntry(state, leaf) /\ disk' = disk
    BY <1>5 DEF ReceiveEntry, InRound
  <2> QED
    BY <1>b, <1>d, <2>1, AddEntryType
<1>6. ASSUME NEW h \in sths, VerifySTH(h)
      PROVE  IsPrefixOf(TrustedTree(disk'), TrustedTree(state'))
  <2>1. /\ pc \in InRound /\ state' = Verified(state, h) /\ disk' = disk
        /\ h.TreeSize = Size(state) /\ h.SHA256RootHash = state.DownloadPosition
    BY <1>6 DEF VerifySTH, IsNext, RootMatches, InRound
  <2>2. h \in Heads /\ h \in STH
    BY <1>a, HeadsAreSTHs DEF TaskInv
  <2>3. IsPrefixOf(TrustedTree(state), TrustedTree(state'))
    BY <1>b, <2>1, <2>2, VerifiedType, AuditedVerified
  <2> QED
    BY <1>a, <2>1, <2>3, TrustStays
<1>7. ASSUME NEW h \in sths, RejectSTH(h)
      PROVE  IsPrefixOf(TrustedTree(disk'), TrustedTree(state'))
  <2>1. pc \in InRound /\ state' = RollBack(state) /\ disk' \in {disk, state'}
    BY <1>7 DEF RejectSTH, InRound
  <2> QED
    BY <1>b, <1>d, <2>1, RollBackType
<1>8. CASE Cancel \/ Tick \/ UNCHANGED vars
  <2>1. UNCHANGED <<pc, disk, state>>
    BY <1>8 DEF Cancel, Tick, vars
  <2> QED
    BY <1>d, <2>1
<1>9. ASSUME NEW h \in Heads, GetSTH(h)
      PROVE  FALSE
  BY <1>9 DEF GetSTH, InRound
<1>10. CASE BeginRound \/ StopWhenIdle \/ RequestFails \/ DeferredSave \/ StateCallFails \/ Crash \/ Restart
  BY <1>10 DEF BeginRound, StopWhenIdle, RequestFails, DeferredSave, StateCallFails, Crash, Restart,
               ReturnEarly, InRound
<1> QED
  BY <1>1, <1>2, <1>3, <1>4, <1>5, <1>6, <1>7, <1>8, <1>9, <1>10 DEF Next, MonitorStep

\* The variables keep their types and the audit invariant holds in every
\* reachable state of monitorLog, whatever the log signs or serves.
THEOREM AuditInvariant == Spec => [](TypeOK /\ AuditInv)
<1>1. Init => TypeOK /\ AuditInv
  BY InitType, InitTask DEF AuditInv, Init, InRound
<1>2. (TypeOK /\ AuditInv) /\ [Next]_vars => (TypeOK /\ AuditInv)'
  BY NextType, NextAudit DEF AuditInv
<1> QED
  BY <1>1, <1>2, PTL DEF Spec

\* Type correctness of the model of monitorLog.
THEOREM TypeCorrect == Spec => []TypeOK
  BY AuditInvariant, PTL

\* Resuming from state.json never skips an entry (monitor.go:173-177).
THEOREM NoEntryIsSkipped == Spec => []NoEntrySkipped
<1>1. AuditInv => NoEntrySkipped
  BY DEF AuditInv, TaskInv, Audited, NoEntrySkipped
<1> QED
  BY <1>1, AuditInvariant, PTL

-----------------------------------------------------------------------------
(* LogMonitor implements Auditor. *)

\* The initial state is an initial state of the auditor.
LEMMA InitAuditor == Init => A!AInit
  BY DEF Init, A!AInit, TrustedTree

\* Saving a state that is audited and trusts no less is a step of the auditor.
LEMMA SaveIsTrust ==
  ASSUME TypeOK, AuditInv, pc \in InRound,
         UNCHANGED <<start, processed>>, disk' # NoState,
         TrustedTree(disk') = TrustedTree(state)
  PROVE  A!Trust \/ UNCHANGED A!avars
<1> DEFINE old == TrustedTree(disk)
           new == TrustedTree(disk')
<1>1. /\ disk # NoState /\ state \in LogState /\ start \in Nat
      /\ Audited(state, start, processed) /\ Audited(disk, start, processed)
      /\ IsPrefixOf(old, new)
  BY DEF AuditInv, TaskInv, TypeOK
<1>2. /\ new \in SignedTrees \cup {<<>>} /\ old \in Seq(Leaf) /\ new \in Seq(Leaf)
      /\ IsPrefixOf(new, state.VerifiedPosition)
      /\ IsPrefixOf(state.VerifiedPosition, state.DownloadPosition)
  BY <1>1, TrustedTreeType DEF Audited
<1> HIDE DEF old, new
<1>3. CASE new = <<>>
  <2>1. old = <<>>
    BY SMTT(40), <1>1, <1>2, <1>3 DEF IsPrefixOf
  <2> QED
    BY <1>1, <1>3, <2>1 DEF A!avars, old, new
<1>4. CASE new \in SignedTrees
  <2>1. IsPrefixOf(new, state.DownloadPosition)
    BY <1>1, <1>2, StateFields, PrefixTransitive
  <2>2. \A i \in (start + 1)..Len(new) : <<i, new[i]>> \in processed
    <3> SUFFICES ASSUME NEW i \in (start + 1)..Len(new)
                 PROVE  <<i, new[i]>> \in processed
      OBVIOUS
    <3>1. /\ i \in 1..Len(new) /\ i \in (start + 1)..Size(state)
          /\ new[i] = state.DownloadPosition[i]
      BY SMTT(40), <1>1, <1>2, <2>1, StateFields DEF IsPrefixOf, Size
    <3> QED
      BY <1>1, <3>1 DEF Audited
  <2> QED
    BY <1>1, <1>4, <2>2 DEF A!Trust, A!IsPrefixOf, IsPrefixOf, old, new
<1> QED
  BY <1>2, <1>3, <1>4

\* Every step is a step of the auditor or leaves it alone.
LEMMA NextAuditor ==
  TypeOK /\ AuditInv /\ TypeOK' /\ [Next]_vars => [A!ANext]_(A!avars)
<1> SUFFICES ASSUME TypeOK, AuditInv, TypeOK', [Next]_vars
             PROVE  A!ANext \/ UNCHANGED A!avars
  BY DEF A!avars
<1> USE DEF diskVars, memVars, roundVars, processVars, historyVars
<1>a. ASSUME UNCHANGED <<disk, start, processed>>
      PROVE  UNCHANGED A!avars
  BY <1>a DEF A!avars
<1>b. pc \in InRound => state \in LogState
  BY DEF AuditInv, TaskInv, TypeOK
<1>1. CASE BeginRound \/ StopWhenIdle \/ RequestFails \/ LoadState \/ LoadSTHs
  BY <1>1, <1>a DEF BeginRound, StopWhenIdle, RequestFails, LoadState, LoadSTHs
<1>2. ASSUME NEW h \in Heads, GetSTH(h)
      PROVE  UNCHANGED A!avars
  BY <1>2, <1>a DEF GetSTH
<1>3. ASSUME NEW tree \in Seq(Leaf), NEW sth \in STH \cup {NoSTH}, NEW shared \in BOOLEAN,
             CreateState(NewState(tree, sth, startTime), shared),
             IF sth = NoSTH THEN tree = <<>>
             ELSE sth \in Heads /\ HasTree(sth) /\ tree = TreeOf(sth)
      PROVE  A!Begin
  <2>1. /\ disk = NoState /\ disk' = NewState(tree, sth, startTime)
        /\ start' = Len(tree) /\ UNCHANGED processed
    BY <1>3 DEF CreateState, NewState, Size
  <2>2. disk' # NoState
    BY <2>1, NewStateType, StateFields DEF TypeOK
  <2>3. TrustedTree(disk') = tree
    BY <1>3, <2>1, AuditedNew DEF TypeOK
  <2>4. tree \in SignedTrees \cup {<<>>}
    BY <1>3 DEF SignedTrees
  <2> QED
    BY <2>1, <2>2, <2>3, <2>4 DEF A!Begin
<1>4. CASE StartAtBeginning
  <2>1. <<>> \in Seq(Leaf)
    OBVIOUS
  <2> QED
    BY <1>3, <1>4, <2>1 DEF StartAtBeginning, A!ANext
<1>5. CASE StartAtLatestSTH
  <2>1. latestSTH \in Heads /\ latestSTH \in STH /\ latestSTH # NoSTH /\ HasTree(latestSTH)
    BY <1>5, HeadsAreSTHs, LogAssumption DEF StartAtLatestSTH, AuditInv, TaskInv
  <2>2. TreeOf(latestSTH) \in Seq(Leaf)
    BY <2>1, TreeOfType
  <2> QED
    BY <1>3, <1>5, <2>1, <2>2 DEF StartAtLatestSTH, A!ANext
<1>6. ASSUME NEW h \in sths, PruneSTH(h) \/ VerifySTH(h)
      PROVE  UNCHANGED A!avars
  BY <1>6, <1>a DEF PruneSTH, VerifySTH
<1>7. CASE NothingToDownload \/ StartDownload \/ FinishDownload \/ DownloadFails
  BY <1>7, <1>a DEF NothingToDownload, StartDownload, FinishDownload, DownloadFails
<1>8. ASSUME NEW leaf \in Leaf, ReceiveEntry(leaf)
      PROVE  A!Detect
  <2>1. /\ UNCHANGED <<disk, start>> /\ processed \subseteq processed'
        /\ processed' \subseteq Nat \X Leaf
    BY <1>8 DEF ReceiveEntry, TypeOK
  <2> QED
    BY <2>1 DEF A!Detect
<1>9. ASSUME NEW h \in sths, RejectSTH(h)
      PROVE  A!Trust \/ UNCHANGED A!avars
  <2>1. /\ pc \in InRound /\ state' = RollBack(state)
        /\ UNCHANGED <<start, processed>> /\ disk' \in {disk, state'}
    BY <1>9 DEF RejectSTH, InRound
  <2>2. /\ state' # NoState /\ state # NoState /\ state'.VerifiedSTH = state.VerifiedSTH
    BY <1>b, <2>1, RollBackType, StateFields
  <2>3. TrustedTree(state') = TrustedTree(state)
    BY <2>2 DEF TrustedTree
  <2>4. CASE disk' = disk
    BY <1>a, <2>1, <2>4
  <2>5. CASE disk' = state'
    BY <2>1, <2>2, <2>3, <2>5, SaveIsTrust
  <2> QED
    BY <2>1, <2>4, <2>5
<1>10. CASE FinishEntry \/ DeferredSave
  <2>1. /\ pc \in InRound /\ UNCHANGED <<start, processed>> /\ disk' \in {disk, state}
    BY <1>10 DEF FinishEntry, DeferredSave, InRound
  <2>2. CASE disk' = disk
    BY <1>a, <2>1, <2>2
  <2>3. CASE disk' = state
    BY <1>b, <2>1, <2>3, StateFields, SaveIsTrust DEF A!ANext
  <2> QED
    BY <2>1, <2>2, <2>3 DEF A!ANext
<1>11. CASE ProcessFails \/ StateCallFails \/ Cancel \/ Crash \/ Restart \/ Tick
  BY <1>11, <1>a DEF ProcessFails, StateCallFails, Cancel, Crash, Restart, Tick
<1>12. CASE UNCHANGED vars
  BY <1>12, <1>a DEF vars
<1> QED
  BY <1>1, <1>2, <1>4, <1>5, <1>6, <1>7, <1>8, <1>9, <1>10, <1>11, <1>12
     DEF Next, MonitorStep, A!ANext

\* The monitor implements the auditor: state.json trusts only trees the log
\* signed, each an extension of the one before, and only past entries that were
\* processed, across crashes, restarts, rollbacks and failed saves.
THEOREM MonitorImplementsAuditor == Spec => ImplementsAuditor
<1>1. TypeOK /\ AuditInv /\ [Next]_vars => [A!ANext]_(A!avars)
  BY NextType, NextAuditor DEF AuditInv
<1> QED
  BY <1>1, InitAuditor, AuditInvariant, PTL DEF Spec, ImplementsAuditor, A!ASpec

-----------------------------------------------------------------------------
(* STHs on file and LastSuccess. *)

\* ProcessedUpTo, and what a LastSuccess of t promises, of given values.
ReadTo(n, from, seen) == \A i \in (from + 1)..n : \E leaf \in Leaf : <<i, leaf>> \in seen
Sound(t, made, known, from, seen) ==
  t > made => \A r \in known : r[1] < t => ReadTo(r[2], from, seen)

\* A new log has no starting point yet.
KeptInv == NoSTHForgotten /\ (disk = NoState => start = 0)

\* The times of a round, and the STHs it works on.
RoundInv ==
  /\ startTime <= clock
  /\ disk # NoState => disk.LastSuccess <= clock
  /\ disk # NoState /\ pc \in InRound \cup {"getSTH", "loadState"} => disk.LastSuccess <= startTime
  /\ pc \in InRound => state.LastSuccess <= startTime
  /\ pc \in {"prune", "receive", "verify"} => sthDir \subseteq sths
  /\ pc \in {"receive", "verify"} => \A h \in sths : h.TreeSize <= downloadEnd

\* LastSuccess keeps its promise, on disk and in memory.
SuccessInv ==
  /\ disk # NoState => Sound(disk.LastSuccess, created, heard, start, processed)
  /\ pc \in InRound => Sound(state.LastSuccess, created, heard, start, processed)

Base == TypeOK /\ TaskInv

\* More entries processed, or a later start, leave no more to read.
LEMMA ReadToStays ==
  ASSUME NEW n \in Nat, NEW from \in Nat, NEW seen, NEW later \in Nat, NEW more,
         ReadTo(n, from, seen), from <= later, seen \subseteq more
  PROVE  ReadTo(n, later, more)
<1>1. \A i \in (later + 1)..n : i \in (from + 1)..n
  OBVIOUS
<1> QED BY <1>1 DEF ReadTo

\* A tree that is read to m is read to every smaller size.
LEMMA ReadToLess ==
  ASSUME NEW n \in Nat, NEW m \in Nat, NEW from \in Nat, NEW seen, ReadTo(m, from, seen), n <= m
  PROVE  ReadTo(n, from, seen)
<1>1. \A i \in (from + 1)..n : i \in (from + 1)..m
  OBVIOUS
<1> QED BY <1>1 DEF ReadTo

\* The promise of an unchanged LastSuccess stays.
LEMMA SoundStays ==
  ASSUME NEW t \in Nat, NEW made \in Nat, NEW known \in SUBSET (Nat \X Nat),
         NEW from \in Nat, NEW seen, NEW later \in Nat, NEW more,
         Sound(t, made, known, from, seen), from <= later, seen \subseteq more
  PROVE  Sound(t, made, known, later, more)
<1> SUFFICES ASSUME t > made, NEW r \in known, r[1] < t
             PROVE  ReadTo(r[2], later, more)
  BY DEF Sound
<1>1. r[2] \in Nat
  OBVIOUS
<1>2. ReadTo(r[2], from, seen)
  BY DEF Sound
<1> QED BY <1>1, <1>2, ReadToStays

\* The entries of the tree in memory have been processed.
LEMMA StateIsRead ==
  ASSUME Base, pc \in InRound, NEW n \in Nat, n <= Size(state)
  PROVE  ReadTo(n, start, processed)
<1>1. state \in LogState /\ Audited(state, start, processed) /\ start \in Nat
  BY DEF Base, TypeOK, TaskInv
<1>2. /\ Size(state) \in Nat /\ \A i \in 1..Size(state) : state.DownloadPosition[i] \in Leaf
  BY <1>1, StateFields DEF Size
<1>3. \A i \in (start + 1)..Size(state) : <<i, state.DownloadPosition[i]>> \in processed
  BY <1>1 DEF Audited
<1>4. ReadTo(Size(state), start, processed)
  BY <1>1, <1>2, <1>3 DEF ReadTo
<1> QED BY <1>1, <1>2, <1>4, ReadToLess

-----------------------------------------------------------------------------
(* No STH is forgotten. *)

\* Removing STHs whose entries are read forgets nothing.
LEMMA KeptStays ==
  ASSUME Base, Base', KeptInv, heard' = heard, start <= start', processed \subseteq processed',
         \A h \in sthDir \ sthDir' : ReadTo(h.TreeSize, start, processed),
         disk' = NoState => disk = NoState /\ start' = start
  PROVE  KeptInv'
<1>1. start \in Nat /\ start' \in Nat /\ \A r \in heard : r[2] \in Nat
  BY DEF Base, TypeOK
<1>2. ASSUME NEW r \in heard
      PROVE  (\E h \in sthDir' : h.TreeSize = r[2]) \/ ReadTo(r[2], start', processed')
  <2>1. (\E h \in sthDir : h.TreeSize = r[2]) \/ ReadTo(r[2], start, processed)
    BY DEF KeptInv, NoSTHForgotten, ProcessedUpTo, ReadTo
  <2>2. (\E h \in sthDir' : h.TreeSize = r[2]) \/ ReadTo(r[2], start, processed)
    BY <2>1
  <2> QED BY <1>1, <2>2, ReadToStays
<1>3. NoSTHForgotten'
  BY <1>2 DEF NoSTHForgotten, ProcessedUpTo, ReadTo
<1> QED BY <1>3 DEF KeptInv

\* The state that is made up for a new log starts at its own size.
LEMMA CreateKeepsSTHs ==
  ASSUME Base, Base', KeptInv, StartAtBeginning \/ StartAtLatestSTH
  PROVE  KeptInv'
<1>1. /\ disk = NoState /\ UNCHANGED <<sthDir, heard, processed>>
      /\ pc' = "loadSTHs"
  BY DEF StartAtBeginning, StartAtLatestSTH, CreateState
<1>2. disk' # NoState
  BY <1>1 DEF Base, TaskInv, InRound
<1>3. start = 0 /\ start' \in Nat
  BY <1>1 DEF KeptInv, Base, TypeOK
<1> QED BY <1>1, <1>2, <1>3, KeptStays

\* Every step keeps the trace of entries that were not read.
LEMMA NextKept == Base /\ Base' /\ KeptInv /\ [Next]_vars => KeptInv'
<1> SUFFICES ASSUME Base, Base', KeptInv, [Next]_vars PROVE KeptInv'
  OBVIOUS
<1> USE DEF diskVars, memVars, roundVars, processVars, historyVars
<1>0. start \in Nat /\ (pc \in InRound => state # NoState)
  BY DEF Base, TypeOK, TaskInv
<1>a. ASSUME UNCHANGED <<sthDir, heard, start, processed>>, disk' = NoState => disk = NoState
      PROVE  KeptInv'
  BY <1>0, <1>a, KeptStays
<1>b. ASSUME UNCHANGED <<disk, heard, start, processed>>, pc \in InRound, NEW h \in sths,
             h.TreeSize <= Size(state), sthDir' = sthDir \/ sthDir' = sthDir \ {h}
      PROVE  KeptInv'
  <2>1. h.TreeSize \in Nat
    BY <1>b DEF Base, TypeOK, STH
  <2>2. ReadTo(h.TreeSize, start, processed)
    BY <1>b, <2>1, StateIsRead
  <2> QED BY <1>0, <1>b, <2>2, KeptStays
<1>1. ASSUME NEW h \in Heads, GetSTH(h) PROVE KeptInv'
  <2>1. /\ sthDir' = sthDir \cup {h} /\ heard' = heard \cup {<<startTime, h.TreeSize>>}
        /\ UNCHANGED <<disk, start, processed>>
    BY <1>1 DEF GetSTH
  <2>2. NoSTHForgotten'
    BY <2>1 DEF KeptInv, NoSTHForgotten, ProcessedUpTo
  <2> QED BY <2>1, <2>2 DEF KeptInv
<1>2. CASE StartAtBeginning \/ StartAtLatestSTH
  BY <1>2, CreateKeepsSTHs
<1>3. ASSUME NEW h \in sths, PruneSTH(h) PROVE KeptInv'
  BY <1>3, <1>b DEF PruneSTH, IsOld, InRound
<1>4. ASSUME NEW h \in sths, VerifySTH(h) PROVE KeptInv'
  <2>1. Size(state) \in Nat
    BY <1>4, StateFields DEF Base, TypeOK, TaskInv, VerifySTH, InRound
  <2> QED BY <1>4, <1>b, <2>1 DEF VerifySTH, IsNext, InRound
<1>5. ASSUME NEW leaf \in Leaf, ReceiveEntry(leaf) PROVE KeptInv'
  <2>1. UNCHANGED <<disk, sthDir, heard, start>> /\ processed \subseteq processed'
    BY <1>5 DEF ReceiveEntry
  <2> QED BY <1>0, <2>1, KeptStays
<1>6. ASSUME NEW h \in sths, RejectSTH(h) PROVE KeptInv'
  <2>1. UNCHANGED <<sthDir, heard, start, processed>> /\ pc' = "deferred"
    BY <1>6 DEF RejectSTH, Return
  <2> QED BY <1>a, <2>1 DEF Base, TaskInv, InRound
<1>7. CASE FinishEntry \/ DeferredSave
  <2>1. UNCHANGED <<sthDir, heard, start, processed>> /\ disk' \in {disk, state} /\ pc \in InRound
    BY <1>7 DEF FinishEntry, DeferredSave, InRound
  <2> QED BY <1>0, <1>a, <2>1
<1>8. CASE BeginRound \/ StopWhenIdle \/ RequestFails \/ LoadState \/ LoadSTHs
  BY <1>8, <1>a DEF BeginRound, StopWhenIdle, RequestFails, LoadState, LoadSTHs
<1>9. CASE NothingToDownload \/ StartDownload \/ FinishDownload \/ DownloadFails \/ ProcessFails
  BY <1>9, <1>a DEF NothingToDownload, StartDownload, FinishDownload, DownloadFails, ProcessFails
<1>10. CASE StateCallFails \/ Cancel \/ Crash \/ Restart \/ Tick \/ UNCHANGED vars
  BY <1>10, <1>a DEF StateCallFails, Cancel, Crash, Restart, Tick, vars
<1> QED
  BY <1>1, <1>2, <1>3, <1>4, <1>5, <1>6, <1>7, <1>8, <1>9, <1>10 DEF Next, MonitorStep

\* Every STH the log has served is on file, or its entries were processed
\* (monitor.go:86, 130-136, 195).
THEOREM NoSTHIsForgotten == Spec => []NoSTHForgotten
<1>1. Init => KeptInv
  BY DEF Init, KeptInv, NoSTHForgotten
<1>2. Base /\ [Next]_vars => Base'
  BY NextType, NextTask DEF Base
<1>3. Init => Base
  BY InitType, InitTask DEF Base
<1>4. Base /\ KeptInv /\ [Next]_vars => KeptInv'
  BY <1>2, NextKept
<1>5. KeptInv => NoSTHForgotten
  BY DEF KeptInv
<1> QED BY <1>1, <1>2, <1>3, <1>4, <1>5, PTL DEF Spec

-----------------------------------------------------------------------------
(* LastSuccess. *)

\* LastSuccess of the states that the steps of a round make.
LEMMA LastSuccessOf ==
  ASSUME NEW s \in LogState
  PROVE  /\ \A leaf : AddEntry(s, leaf).LastSuccess = s.LastSuccess
         /\ \A h : Verified(s, h).LastSuccess = s.LastSuccess
         /\ RollBack(s).LastSuccess = s.LastSuccess
         /\ Succeeded(s).LastSuccess = startTime
  BY DEF AddEntry, Verified, RollBack, Succeeded, LogState

\* Nothing is known of a round that has not begun or that has ended.
LEMMA RoundOver ==
  ASSUME Base, RoundInv, disk' \in {disk, state}, disk' # disk => pc \in InRound,
         UNCHANGED clock, startTime' = 0, pc' \in {"idle", "stopped"}
  PROVE  RoundInv'
<1>1. /\ clock \in Nat /\ startTime <= clock /\ startTime \in Nat
      /\ pc \in InRound => state \in LogState /\ state.LastSuccess \in Nat /\ state.LastSuccess <= startTime
  BY StateFields DEF Base, TypeOK, TaskInv, RoundInv
<1>2. disk' # NoState => disk'.LastSuccess <= clock
  BY <1>1 DEF RoundInv
<1> QED BY <1>1, <1>2 DEF RoundInv, InRound

\* A step in a round that changes no time and no more of the STHs than it may.
LEMMA RoundGoesOn ==
  ASSUME Base, RoundInv, UNCHANGED <<clock, startTime>>, pc \in InRound, pc' \in InRound,
         disk' \in LogState, state' \in LogState,
         disk'.LastSuccess \in {disk.LastSuccess, state.LastSuccess},
         state'.LastSuccess \in {state.LastSuccess, startTime},
         pc' \in {"prune", "receive", "verify"} => sthDir' \subseteq sths',
         pc' \in {"receive", "verify"} => \A h \in sths' : h.TreeSize <= downloadEnd'
  PROVE  RoundInv'
<1>1. /\ disk \in LogState /\ state \in LogState /\ startTime \in Nat /\ clock \in Nat
  BY DEF Base, TypeOK, TaskInv
<1>2. disk.LastSuccess \in Nat /\ state.LastSuccess \in Nat
  BY <1>1, StateFields
<1>3. disk.LastSuccess <= startTime /\ state.LastSuccess <= startTime /\ startTime <= clock
  BY <1>1, StateFields DEF RoundInv
<1>4. disk'.LastSuccess <= startTime /\ state'.LastSuccess <= startTime /\ disk'.LastSuccess <= clock
  BY <1>1, <1>2, <1>3
<1> QED BY <1>3, <1>4 DEF RoundInv

\* Every step keeps the order of the times and the bounds on the STHs.
LEMMA NextRound == Base /\ Base' /\ RoundInv /\ [Next]_vars => RoundInv'
<1> SUFFICES ASSUME Base, Base', RoundInv, [Next]_vars PROVE RoundInv'
  OBVIOUS
<1> USE DEF diskVars, memVars, roundVars, processVars, historyVars
<1>0. /\ clock \in Nat /\ startTime \in Nat /\ downloadEnd \in Nat
      /\ pc \in InRound => state \in LogState /\ disk \in LogState
      /\ pc' \in InRound => state' \in LogState /\ disk' \in LogState
      /\ disk # NoState => disk.LastSuccess \in Nat
      /\ sths \subseteq STH
  BY StateFields DEF Base, TypeOK, TaskInv
<1>1. CASE BeginRound
  BY <1>0, <1>1 DEF BeginRound, RoundInv, InRound
<1>2. CASE StopWhenIdle \/ RequestFails \/ StateCallFails \/ Crash
  BY <1>2, RoundOver DEF StopWhenIdle, RequestFails, StateCallFails, Crash, ReturnEarly, Forget
<1>3. CASE DeferredSave
  <2>1. /\ disk' \in {disk, state} /\ pc \in InRound /\ UNCHANGED clock /\ startTime' = 0
        /\ pc' \in {"idle", "stopped"}
    BY <1>3 DEF DeferredSave, ReturnEarly, Forget, InRound
  <2> QED BY <2>1, RoundOver
<1>4. ASSUME NEW h \in Heads, GetSTH(h) PROVE RoundInv'
  BY <1>4 DEF GetSTH, RoundInv, InRound
<1>5. CASE LoadState
  BY <1>5 DEF LoadState, RoundInv, InRound
<1>6. CASE StartAtBeginning \/ StartAtLatestSTH
  <2>1. /\ disk' = state' /\ disk'.LastSuccess = startTime
        /\ UNCHANGED <<clock, startTime>> /\ pc' = "loadSTHs"
    BY <1>6 DEF StartAtBeginning, StartAtLatestSTH, CreateState, NewState
  <2> QED BY <1>0, <2>1 DEF RoundInv, InRound
<1>7. CASE LoadSTHs
  <2>1. pc \in InRound /\ pc' = "prune" /\ pc' \in InRound /\ sths' = sthDir
        /\ UNCHANGED <<diskVars, state, clock, startTime>>
    BY <1>7 DEF LoadSTHs, InRound
  <2> QED BY <1>0, <2>1, RoundGoesOn
<1>8. ASSUME NEW h \in sths, PruneSTH(h) PROVE RoundInv'
  <2>1. pc \in InRound /\ pc' = "prune" /\ pc' \in InRound /\ UNCHANGED <<disk, state, clock, startTime>>
        /\ sthDir' \subseteq sths'
    BY <1>8 DEF PruneSTH, InRound, RoundInv
  <2> QED BY <1>0, <2>1, RoundGoesOn
<1>9. CASE NothingToDownload \/ FinishDownload
  <2>1. pc \in InRound /\ pc' = "deferred" /\ pc' \in InRound /\ UNCHANGED <<disk, clock, startTime>>
        /\ state' = Succeeded(state)
    BY <1>9 DEF NothingToDownload, FinishDownload, InRound, Return
  <2> QED BY <1>0, <2>1, LastSuccessOf, RoundGoesOn
<1>10. CASE StartDownload
  <2>1. pc \in InRound /\ pc = "prune" /\ pc' = "receive" /\ pc' \in InRound
        /\ UNCHANGED <<disk, sthDir, sths, state, clock, startTime>>
    BY <1>10 DEF StartDownload, InRound
  <2>2. \A h \in sths : h.TreeSize <= downloadEnd'
    BY <1>10 DEF StartDownload, LastSTHs
  <2> QED BY <1>0, <2>1, <2>2, RoundGoesOn DEF RoundInv
<1>11. ASSUME NEW leaf \in Leaf, ReceiveEntry(leaf) PROVE RoundInv'
  <2>1. pc \in InRound /\ pc = "receive" /\ pc' = "verify" /\ pc' \in InRound
        /\ UNCHANGED <<disk, sthDir, sths, downloadEnd, clock, startTime>>
        /\ state' = AddEntry(state, leaf)
    BY <1>11 DEF ReceiveEntry, InRound
  <2> QED BY <1>0, <2>1, LastSuccessOf, RoundGoesOn DEF RoundInv
<1>12. ASSUME NEW h \in sths, VerifySTH(h) PROVE RoundInv'
  <2>1. pc \in InRound /\ pc = "verify" /\ pc' \in InRound /\ state' = Verified(state, h)
        /\ UNCHANGED <<disk, downloadEnd, clock, startTime>>
    BY <1>12 DEF VerifySTH, InRound, Return
  <2>2. sths' \subseteq sths /\ (sthDir \subseteq sths => sthDir' \subseteq sths')
    BY <1>12 DEF VerifySTH
  <2> QED BY <1>0, <2>1, <2>2, LastSuccessOf, RoundGoesOn DEF RoundInv
<1>13. ASSUME NEW h \in sths, RejectSTH(h) PROVE RoundInv'
  <2>1. pc \in InRound /\ pc' = "deferred" /\ pc' \in InRound /\ state' = RollBack(state)
        /\ disk' \in {disk, state'} /\ UNCHANGED <<clock, startTime>>
    BY <1>13 DEF RejectSTH, InRound, Return
  <2> QED BY <1>0, <2>1, LastSuccessOf, RoundGoesOn
<1>14. CASE FinishEntry \/ DownloadFails \/ ProcessFails
  <2>1. pc \in InRound /\ pc \in {"receive", "verify"} /\ pc' \in {"receive", "deferred"} /\ pc' \in InRound
        /\ disk' \in {disk, state}
        /\ UNCHANGED <<sthDir, sths, state, downloadEnd, clock, startTime>>
    BY <1>14 DEF FinishEntry, DownloadFails, ProcessFails, InRound, Return
  <2> QED BY <1>0, <2>1, RoundGoesOn DEF RoundInv
<1>15. CASE Cancel \/ UNCHANGED vars
  BY <1>15 DEF Cancel, vars, RoundInv
<1>16. CASE Restart
  BY <1>16 DEF Restart, RoundInv, InRound
<1>17. CASE Tick
  BY <1>0, <1>17 DEF Tick, RoundInv
<1> QED
  BY <1>1, <1>2, <1>3, <1>4, <1>5, <1>6, <1>7, <1>8, <1>9, <1>10, <1>11, <1>12, <1>13, <1>14,
     <1>15, <1>16, <1>17 DEF Next, MonitorStep

\* Saving, loading and keeping a LastSuccess keeps its promise.
LEMMA SuccessStays ==
  ASSUME Base, Base', SuccessInv, UNCHANGED <<heard, created, start>>,
         processed \subseteq processed',
         disk' # NoState => \/ disk # NoState /\ disk'.LastSuccess = disk.LastSuccess
                            \/ pc \in InRound /\ disk'.LastSuccess = state.LastSuccess,
         pc' \in InRound => \/ disk # NoState /\ state'.LastSuccess = disk.LastSuccess
                            \/ pc \in InRound /\ state'.LastSuccess = state.LastSuccess
  PROVE  SuccessInv'
<1>1. /\ start \in Nat /\ created \in Nat /\ heard \in SUBSET (Nat \X Nat)
      /\ disk # NoState => disk.LastSuccess \in Nat
      /\ pc \in InRound => state.LastSuccess \in Nat
  BY StateFields DEF Base, TypeOK, TaskInv
<1>2. disk # NoState => Sound(disk.LastSuccess, created, heard, start, processed')
  BY <1>1, SoundStays DEF SuccessInv
<1>3. pc \in InRound => Sound(state.LastSuccess, created, heard, start, processed')
  BY <1>1, SoundStays DEF SuccessInv
<1> QED BY <1>2, <1>3 DEF SuccessInv

\* A round that ends with nothing left to read may say so: what is still on
\* file is no larger than the tree in memory.
LEMMA CaughtUp ==
  ASSUME Base, KeptInv, pc \in InRound, \A h \in sthDir : h.TreeSize <= Size(state)
  PROVE  Sound(startTime, created, heard, start, processed)
<1> SUFFICES ASSUME NEW r \in heard PROVE ReadTo(r[2], start, processed)
  BY DEF Sound
<1>1. r[2] \in Nat
  BY DEF Base, TypeOK
<1>2. CASE \E h \in sthDir : h.TreeSize = r[2]
  BY <1>1, <1>2, StateIsRead
<1>3. CASE ProcessedUpTo(r[2])
  BY <1>3 DEF ProcessedUpTo, ReadTo
<1> QED BY <1>2, <1>3 DEF KeptInv, NoSTHForgotten

\* Every step keeps the promise of LastSuccess.
LEMMA NextSuccess ==
  Base /\ Base' /\ KeptInv /\ RoundInv /\ SuccessInv /\ [Next]_vars => SuccessInv'
<1> SUFFICES ASSUME Base, Base', KeptInv, RoundInv, SuccessInv, [Next]_vars PROVE SuccessInv'
  OBVIOUS
<1> USE DEF diskVars, memVars, roundVars, processVars, historyVars
<1>0. /\ startTime \in Nat /\ created \in Nat
      /\ pc \in InRound => state \in LogState /\ disk # NoState
      /\ disk # NoState => disk.LastSuccess \in Nat
  BY StateFields DEF Base, TypeOK, TaskInv
<1>a. ASSUME UNCHANGED <<disk, heard, created, start, processed>>, pc' \notin InRound
      PROVE  SuccessInv'
  BY <1>a, SuccessStays
<1>b. ASSUME UNCHANGED <<heard, created, start>>, processed \subseteq processed', pc \in InRound,
             disk' = NoState \/ disk'.LastSuccess \in {disk.LastSuccess, state.LastSuccess},
             pc' \in InRound => state'.LastSuccess = state.LastSuccess
      PROVE  SuccessInv'
  BY <1>0, <1>b, SuccessStays
<1>c. ASSUME \A h \in sthDir : h.TreeSize <= Size(state), pc \in InRound,
             state' = Succeeded(state), UNCHANGED <<disk, heard, created, start, processed>>
      PROVE  SuccessInv'
  <2>1. Sound(startTime, created, heard, start, processed) /\ state'.LastSuccess = startTime
    BY <1>0, <1>c, CaughtUp, LastSuccessOf
  <2> QED BY <1>c, <2>1 DEF SuccessInv
<1>1. CASE BeginRound \/ StopWhenIdle \/ RequestFails \/ StateCallFails \/ Crash \/ Restart
  <2>1. UNCHANGED <<disk, heard, created, start, processed>> /\ pc' \notin InRound
    BY <1>1 DEF BeginRound, StopWhenIdle, RequestFails, StateCallFails, Crash, Restart,
                ReturnEarly, InRound
  <2> QED BY <1>a, <2>1
<1>2. ASSUME NEW h \in Heads, GetSTH(h) PROVE SuccessInv'
  <2>1. /\ heard' = heard \cup {<<startTime, h.TreeSize>>} /\ pc' \notin InRound
        /\ UNCHANGED <<disk, created, start, processed>>
        /\ disk # NoState => disk.LastSuccess <= startTime
    BY <1>2 DEF GetSTH, InRound, RoundInv
  <2>2. disk # NoState => Sound(disk.LastSuccess, created, heard', start, processed)
    BY <1>0, <2>1 DEF SuccessInv, Sound
  <2> QED BY <2>1, <2>2 DEF SuccessInv
<1>3. CASE LoadState
  BY <1>3, SuccessStays DEF LoadState
<1>4. CASE StartAtBeginning \/ StartAtLatestSTH
  <2>1. disk' = state' /\ disk'.LastSuccess = startTime /\ created' = startTime
    BY <1>4 DEF StartAtBeginning, StartAtLatestSTH, CreateState, NewState
  <2>2. \A known, from, seen : Sound(startTime, startTime, known, from, seen)
    BY <1>0 DEF Sound
  <2> QED BY <2>1, <2>2 DEF SuccessInv
<1>5. CASE LoadSTHs \/ StartDownload \/ DownloadFails \/ ProcessFails
  <2>1. UNCHANGED <<disk, state, heard, created, start, processed>> /\ pc \in InRound
    BY <1>5 DEF LoadSTHs, StartDownload, DownloadFails, ProcessFails, InRound
  <2> QED BY <1>b, <2>1
<1>6. ASSUME NEW h \in sths, PruneSTH(h) PROVE SuccessInv'
  BY <1>6, <1>b DEF PruneSTH, InRound
<1>7. CASE NothingToDownload
  <2>1. sthDir = {} /\ pc \in InRound /\ state' = Succeeded(state)
        /\ UNCHANGED <<disk, heard, created, start, processed>>
    BY <1>7 DEF NothingToDownload, RoundInv, InRound
  <2> QED BY <1>c, <2>1
<1>8. CASE FinishDownload
  <2>1. /\ pc \in InRound /\ state' = Succeeded(state)
        /\ \A h \in sthDir : h.TreeSize <= Size(state)
        /\ UNCHANGED <<disk, heard, created, start, processed>>
    BY <1>8 DEF FinishDownload, RoundInv, InRound
  <2> QED BY <1>c, <2>1
<1>9. ASSUME NEW leaf \in Leaf, ReceiveEntry(leaf) PROVE SuccessInv'
  <2>1. pc \in InRound /\ state' = AddEntry(state, leaf) /\ processed \subseteq processed'
        /\ UNCHANGED <<disk, heard, created, start>>
    BY <1>9 DEF ReceiveEntry, InRound
  <2> QED BY <1>0, <1>b, <2>1, LastSuccessOf
<1>10. ASSUME NEW h \in sths, VerifySTH(h) PROVE SuccessInv'
  <2>1. pc \in InRound /\ state' = Verified(state, h)
        /\ UNCHANGED <<disk, heard, created, start, processed>>
    BY <1>10 DEF VerifySTH, InRound
  <2> QED BY <1>0, <1>b, <2>1, LastSuccessOf
<1>11. ASSUME NEW h \in sths, RejectSTH(h) PROVE SuccessInv'
  <2>1. pc \in InRound /\ state' = RollBack(state) /\ disk' \in {disk, state'}
        /\ UNCHANGED <<heard, created, start, processed>>
    BY <1>11 DEF RejectSTH, InRound
  <2>2. state'.LastSuccess = state.LastSuccess
    BY <1>0, <2>1, LastSuccessOf
  <2>3. disk'.LastSuccess \in {disk.LastSuccess, state.LastSuccess}
    BY <2>1, <2>2
  <2> QED BY <1>b, <2>1, <2>2, <2>3
<1>12. CASE FinishEntry
  <2>1. pc \in InRound /\ disk' \in {disk, state} /\ UNCHANGED <<state, heard, created, start, processed>>
    BY <1>12 DEF FinishEntry, InRound
  <2> QED BY <1>b, <2>1
<1>13. CASE DeferredSave
  <2>1. /\ pc \in InRound /\ pc' \notin InRound /\ disk' \in {disk, state}
        /\ UNCHANGED <<heard, created, start, processed>>
    BY <1>13 DEF DeferredSave, ReturnEarly, InRound
  <2> QED BY <1>b, <2>1
<1>14. CASE Cancel \/ Tick \/ UNCHANGED vars
  BY <1>14 DEF Cancel, Tick, vars, SuccessInv
<1> QED
  BY <1>1, <1>2, <1>3, <1>4, <1>5, <1>6, <1>7, <1>8, <1>9, <1>10, <1>11, <1>12, <1>13, <1>14
  DEF Next, MonitorStep

\* When state.json says that a log was monitored successfully at T, every STH
\* from a round that began before T has been read (monitor.go:147-149, 220).
THEOREM LastSuccessIsSound == Spec => []LastSuccessSound
<1> DEFINE IInv == Base /\ KeptInv /\ RoundInv /\ SuccessInv
<1>1. Init => IInv
  BY InitType, InitTask
  DEF Init, Base, KeptInv, NoSTHForgotten, RoundInv, SuccessInv, InRound
<1>2. IInv /\ [Next]_vars => IInv'
  BY NextType, NextTask, NextKept, NextRound, NextSuccess DEF Base
<1>3. IInv => LastSuccessSound
  BY DEF SuccessInv, Sound, ReadTo, LastSuccessSound, ProcessedUpTo
<1> QED BY <1>1, <1>2, <1>3, PTL DEF Spec

=============================================================================
