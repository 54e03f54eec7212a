------------------------------ MODULE LogMonitor ------------------------------
(***************************************************************************)
(* The monitor of one Certificate Transparency log: the loop               *)
(* monitorLogContinously and its body monitorLog (monitor/monitor.go),     *)
(* together with the two things it keeps on disk for the log               *)
(* (monitor/fsstate.go, monitor/sthdir.go): state.json and the directory   *)
(* unverified_sths.                                                        *)
(*                                                                         *)
(* Abstractions.  A Merkle tree is the sequence of its leaf hashes and a   *)
(* root hash is that same sequence: SHA-256 is taken to be collision free, *)
(* so two roots are equal exactly when the sequences are.  Every step ends *)
(* at a call that touches the network or the disk, so that a crash can     *)
(* fall between any two of them.  The download goroutine is seen through   *)
(* its channel only (see EntryStream and Download).                        *)
(***************************************************************************)
EXTENDS Integers, Sequences, FiniteSets, Prefixes

CONSTANTS
  Leaf,           \* leaf hashes
  Log,            \* the entries of the log, in order
  Timestamp,      \* the timestamps an STH may carry
  BadHeads,       \* STHs the log may sign although they do not describe Log
  MaxBadEntries,  \* how often get-entries may return a wrong entry
  SaveEvery,      \* 10000 in the code
  MaxClock,       \* bound on the clock
  NoSTH,          \* the nil *ct.SignedTreeHead
  NoState         \* a missing state.json, a nil *LogState

STH == [TreeSize : Nat, SHA256RootHash : Seq(Leaf), Timestamp : Timestamp]

LogState == [DownloadPosition : Seq(Leaf), VerifiedPosition : Seq(Leaf),
             VerifiedSTH : STH \cup {NoSTH}, LastSuccess : Nat]

ASSUME LogAssumption ==
  /\ Log \in Seq(Leaf)
  /\ BadHeads \subseteq STH
  /\ MaxBadEntries \in Nat
  /\ SaveEvery \in Nat \ {0}
  /\ MaxClock \in Nat
  /\ NoSTH \notin STH
  /\ NoState \notin LogState

VARIABLES
  \* on disk
  disk,         \* state.json
  sthDir,       \* unverified_sths/
  \* local variables of monitorLog
  pc, state,
  aliased,      \* DownloadPosition and VerifiedPosition are the same pointer
  sths,         \* the slice sths, sorted by TreeSize
  latestSTH, startTime, downloadEnd, shouldSaveState,
  returned,     \* the error returned by monitorLog, or how the process ended
  \* the process and its environment
  startAtEnd,   \* the flag -start_at_end
  cancelled,    \* the context was cancelled (SIGTERM, SIGINT)
  clock,
  badEntries,   \* wrong entries returned so far
  \* history variables
  start,        \* where monitoring of the log began
  created,      \* LastSuccess of the state.json that was written first
  processed,    \* every <<index, leaf>> given to processLogEntry
  heard         \* every <<start of the round, TreeSize>> of an STH that was stored

diskVars    == <<disk, sthDir>>
roundVars   == <<latestSTH, startTime, downloadEnd>>
memVars     == <<state, aliased, sths, shouldSaveState, roundVars>>
processVars == <<startAtEnd, cancelled>>
historyVars == <<start, created, processed, heard>>
vars == <<diskVars, memVars, pc, returned, processVars, clock, badEntries, historyVars>>

-----------------------------------------------------------------------------
(* What the log may answer. *)

\* The STH of an honest log at size n.
TreeHead(n, t) ==
  [TreeSize |-> n, SHA256RootHash |-> SubSeq(Log, 1, n), Timestamp |-> t]

Heads == {TreeHead(n, t) : n \in 0..Len(Log), t \in Timestamp} \cup BadHeads

IsGoodEntry(i, leaf) == i \in 1..Len(Log) /\ leaf = Log[i]

\* There is a tree of the size and with the root that h states.  The root of a
\* tree of size 0 is never looked at.
HasTree(h) == h.TreeSize \in {0, Len(h.SHA256RootHash)}

TreeOf(h) == SubSeq(h.SHA256RootHash, 1, h.TreeSize)

-----------------------------------------------------------------------------
(* The slice sths and the state record. *)

\* The candidates for sths[0]: the sort is by TreeSize alone and not stable.
FirstSTHs(S) == {h \in S : \A g \in S : h.TreeSize <= g.TreeSize}

\* Mutant: the slice is in directory order, not sorted by size.
Mut_LastSTHsUnsorted(S) == S

\* The candidates for sths[len(sths)-1].
LastSTHs(S) == {h \in S : \A g \in S : g.TreeSize <= h.TreeSize}

NewState(tree, sth, now) ==
  [DownloadPosition |-> tree, VerifiedPosition |-> tree,
   VerifiedSTH |-> sth, LastSuccess |-> now]

Size(s) == Len(s.DownloadPosition)

\* CollapsedTree.Add changes the tree in place: through the shared pointer
\* VerifiedPosition moves as well.
AddEntry(s, leaf) ==
  [s EXCEPT !.DownloadPosition = Append(@, leaf),
            !.VerifiedPosition = IF aliased THEN Append(s.DownloadPosition, leaf) ELSE @]

Verified(s, h) ==
  [s EXCEPT !.VerifiedPosition = s.DownloadPosition, !.VerifiedSTH = h]

\* Mutant: a mismatch discards the download position altogether.
Mut_RollBackToEmpty(s) == [s EXCEPT !.DownloadPosition = <<>>]

RollBack(s) == [s EXCEPT !.DownloadPosition = s.VerifiedPosition]

Succeeded(s) == [s EXCEPT !.LastSuccess = startTime]

-----------------------------------------------------------------------------
Init ==
  /\ disk = NoState /\ sthDir = {}
  /\ pc = "idle" /\ state = NoState /\ aliased = FALSE /\ sths = {}
  /\ latestSTH = NoSTH /\ startTime = 0 /\ downloadEnd = 0
  /\ shouldSaveState = FALSE /\ returned = "nil"
  /\ startAtEnd \in BOOLEAN /\ cancelled = FALSE
  /\ clock = 0 /\ badEntries = 0
  /\ start = 0 /\ created = 0 /\ processed = {} /\ heard = {}

\* The local variables of monitorLog are gone.
Forget ==
  /\ state' = NoState /\ aliased' = FALSE /\ sths' = {} /\ shouldSaveState' = FALSE
  /\ latestSTH' = NoSTH /\ startTime' = 0 /\ downloadEnd' = 0

\* monitorLog returns before its deferred save is installed.  A nil error leads
\* to the next round, any other one ends the process.
ReturnEarly(err) ==
  /\ pc' = IF err = "nil" THEN "idle" ELSE "stopped"
  /\ returned' = err
  /\ Forget

\* monitorLog returns through the deferred StoreLogState.
Return(err) ==
  /\ pc' = "deferred"
  /\ returned' = err

-----------------------------------------------------------------------------
(* The steps of a round. *)

\* Mutant: the loop does not look at the context.
Mut_BeginRoundAlways ==
  /\ pc = "idle"
  /\ pc' = "getSTH"
  /\ startTime' = clock
  /\ UNCHANGED <<diskVars, state, aliased, sths, shouldSaveState, latestSTH, downloadEnd,
                 returned, processVars, clock, badEntries, historyVars>>

BeginRound ==
  /\ pc = "idle" /\ ~cancelled
  /\ pc' = "getSTH"
  /\ startTime' = clock
  /\ UNCHANGED <<diskVars, state, aliased, sths, shouldSaveState, latestSTH, downloadEnd,
                 returned, processVars, clock, badEntries, historyVars>>

StopWhenIdle ==
  /\ pc = "idle" /\ cancelled
  /\ ReturnEarly("canceled")
  /\ UNCHANGED <<diskVars, processVars, clock, badEntries, historyVars>>

\* Mutant: an STH of a size that was heard of is not stored again.
Mut_GetSTHOnce(h) ==
  /\ pc = "getSTH"
  /\ latestSTH' = h
  /\ sthDir' = IF <<startTime, h.TreeSize>> \in heard THEN sthDir ELSE sthDir \cup {h}
  /\ pc' = "loadState"
  /\ heard' = heard \cup {<<startTime, h.TreeSize>>}
  /\ UNCHANGED <<disk, state, aliased, sths, shouldSaveState, startTime, downloadEnd, returned,
                 processVars, clock, badEntries, start, created, processed>>

GetSTH(h) ==
  /\ pc = "getSTH"
  /\ latestSTH' = h
  /\ sthDir' = sthDir \cup {h}
  /\ pc' = "loadState"
  /\ heard' = heard \cup {<<startTime, h.TreeSize>>}
  /\ UNCHANGED <<disk, state, aliased, sths, shouldSaveState, startTime, downloadEnd, returned,
                 processVars, clock, badEntries, start, created, processed>>

\* The request failed: canceled is fatal, anything else is recorded and the
\* round is given up.  Also a failed reconstructTree.
RequestFails ==
  /\ \/ pc = "getSTH"
     \/ pc = "loadState" /\ disk = NoState /\ startAtEnd
  /\ \/ ReturnEarly("nil")
     \/ cancelled /\ ReturnEarly("canceled")
  /\ UNCHANGED <<diskVars, processVars, clock, badEntries, historyVars>>

LoadState ==
  /\ pc = "loadState" /\ disk # NoState
  /\ state' = disk /\ aliased' = FALSE
  /\ pc' = "loadSTHs"
  /\ UNCHANGED <<diskVars, sths, shouldSaveState, roundVars, returned,
                 processVars, clock, badEntries, historyVars>>

\* A new log: the state is made up and stored.
CreateState(s, sharedPointer) ==
  /\ disk = NoState
  /\ state' = s /\ disk' = s /\ aliased' = sharedPointer
  /\ start' = Size(s) /\ created' = s.LastSuccess
  /\ pc' = "loadSTHs"
  /\ UNCHANGED <<sthDir, sths, shouldSaveState, roundVars, returned,
                 processVars, clock, badEntries, processed, heard>>

StartAtBeginning ==
  /\ pc = "loadState" /\ ~startAtEnd
  /\ CreateState(NewState(<<>>, NoSTH, startTime), FALSE)

\* reconstructTree accepts the audit path only if it hashes to the signed root;
\* a tree of size 0 is not compared with the root.
StartAtLatestSTH ==
  /\ pc = "loadState" /\ startAtEnd
  /\ HasTree(latestSTH)
  /\ CreateState(NewState(TreeOf(latestSTH), latestSTH, startTime), TRUE)

LoadSTHs ==
  /\ pc = "loadSTHs"
  /\ sths' = sthDir
  /\ pc' = "prune"
  /\ UNCHANGED <<diskVars, state, aliased, shouldSaveState, roundVars, returned,
                 processVars, clock, badEntries, historyVars>>

\* Mutant: off by one, the STH just above the download position is old.
Mut_IsOldPlusOne(h) == h.TreeSize <= Size(state) + 1

\* STHs at or below the download position are dropped, smallest first.
IsOld(h) == h.TreeSize <= Size(state)

\* Mutant: the directory is rewritten with what is left of the slice.
Mut_PruneSTHRewrites(h) ==
  /\ pc = "prune"
  /\ h \in FirstSTHs(sths) /\ IsOld(h)
  /\ sthDir' = sths \ {h}
  /\ sths' = sths \ {h}
  /\ UNCHANGED <<disk, pc, state, aliased, shouldSaveState, roundVars, returned,
                 processVars, clock, badEntries, historyVars>>

PruneSTH(h) ==
  /\ pc = "prune"
  /\ h \in FirstSTHs(sths) /\ IsOld(h)
  /\ sthDir' = sthDir \ {h}
  /\ sths' = sths \ {h}
  /\ UNCHANGED <<disk, pc, state, aliased, shouldSaveState, roundVars, returned,
                 processVars, clock, badEntries, historyVars>>

NothingToDownload ==
  /\ pc = "prune" /\ sths = {}
  /\ state' = Succeeded(state)
  /\ Return("nil")
  /\ UNCHANGED <<diskVars, aliased, sths, shouldSaveState, roundVars,
                 processVars, clock, badEntries, historyVars>>

StartDownload ==
  /\ pc = "prune" /\ sths # {}
  /\ \A h \in FirstSTHs(sths) : ~IsOld(h)
  /\ \E h \in LastSTHs(sths) : downloadEnd' = h.TreeSize
  /\ pc' = "receive"
  /\ UNCHANGED <<diskVars, state, aliased, sths, shouldSaveState, latestSTH, startTime, returned,
                 processVars, clock, badEntries, historyVars>>

\* An entry comes out of the channel, is processed and added to the tree.
ReceiveEntry(leaf) ==
  /\ pc = "receive" /\ Size(state) < downloadEnd
  /\ LET i == Size(state) + 1 IN
       /\ processed' = processed \cup {<<i, leaf>>}
       /\ state' = AddEntry(state, leaf)
       /\ shouldSaveState' = (i % SaveEvery = 0)
       /\ IF IsGoodEntry(i, leaf) THEN badEntries' = badEntries
          ELSE badEntries < MaxBadEntries /\ badEntries' = badEntries + 1
  /\ pc' = "verify"
  /\ UNCHANGED <<diskVars, aliased, sths, roundVars, returned, processVars, clock,
                 start, created, heard>>

\* Mutant: the entry was added before it is processed.
Mut_ProcessFailsAfterAdd ==
  /\ pc = "receive" /\ Size(state) < downloadEnd
  /\ \E leaf \in Leaf : state' = AddEntry(state, leaf)
  /\ Return("error")
  /\ UNCHANGED <<diskVars, aliased, sths, shouldSaveState, roundVars,
                 processVars, clock, badEntries, historyVars>>

\* processLogEntry fails: the entry is not added.
ProcessFails ==
  /\ pc = "receive" /\ Size(state) < downloadEnd
  /\ Return("error")
  /\ UNCHANGED <<diskVars, memVars, processVars, clock, badEntries, historyVars>>

IsNext(h) == h \in FirstSTHs(sths) /\ h.TreeSize = Size(state)

\* Mutant: an STH counts as verified as soon as its size is reached.
Mut_RootIgnored(h) == Len(h.SHA256RootHash) = Size(state)

RootMatches(h) == h.SHA256RootHash = state.DownloadPosition

VerifySTH(h) ==
  /\ pc = "verify" /\ IsNext(h) /\ RootMatches(h)
  /\ state' = Verified(state, h)
  /\ aliased' = TRUE
  /\ shouldSaveState' = TRUE
  /\ \/ /\ sthDir' = sthDir \ {h}
        /\ sths' = sths \ {h}
        /\ UNCHANGED <<pc, returned>>
     \/ \* RemoveSTH fails
        /\ Return("error")
        /\ UNCHANGED <<sthDir, sths>>
  /\ UNCHANGED <<disk, roundVars, processVars, clock, badEntries, historyVars>>

RejectSTH(h) ==
  /\ pc = "verify" /\ IsNext(h) /\ ~RootMatches(h)
  /\ state' = RollBack(state)
  /\ aliased' = TRUE
  /\ \/ disk' = state' /\ Return("nil")
     \/ disk' = disk /\ Return("error")
  /\ UNCHANGED <<sthDir, sths, shouldSaveState, roundVars,
                 processVars, clock, badEntries, historyVars>>

\* No STH for this tree size is left: save if there is a reason to.
FinishEntry ==
  /\ pc = "verify" /\ \A h \in FirstSTHs(sths) : ~IsNext(h)
  /\ \/ /\ disk' = IF shouldSaveState THEN state ELSE disk
        /\ pc' = "receive"
        /\ UNCHANGED returned
     \/ \* StoreLogState fails
        /\ shouldSaveState
        /\ disk' = disk
        /\ Return("error")
  /\ UNCHANGED <<sthDir, memVars, processVars, clock, badEntries, historyVars>>

\* The channel is closed after the last entry, without an error.
FinishDownload ==
  /\ pc = "receive" /\ Size(state) = downloadEnd
  /\ state' = Succeeded(state)
  /\ Return("nil")
  /\ UNCHANGED <<diskVars, aliased, sths, shouldSaveState, roundVars,
                 processVars, clock, badEntries, historyVars>>

\* Mutant: LastSuccess is set whether or not the download failed.
Mut_DownloadFailsAsSuccess ==
  /\ pc = "receive"
  /\ state' = Succeeded(state)
  /\ Return("nil")
  /\ UNCHANGED <<diskVars, aliased, sths, shouldSaveState, roundVars,
                 processVars, clock, badEntries, historyVars>>

\* The channel is closed after a failed or a canceled request.
DownloadFails ==
  /\ pc = "receive"
  /\ \/ Size(state) < downloadEnd /\ Return("nil")
     \/ cancelled /\ Return("canceled")
  /\ UNCHANGED <<diskVars, memVars, processVars, clock, badEntries, historyVars>>

\* Mutant: the deferred save is missing.
Mut_NoDeferredSave ==
  /\ pc = "deferred"
  /\ disk' = disk /\ ReturnEarly(returned)
  /\ UNCHANGED <<sthDir, processVars, clock, badEntries, historyVars>>

\* The deferred StoreLogState, and the return to monitorLogContinously.
DeferredSave ==
  /\ pc = "deferred"
  /\ \/ disk' = state /\ ReturnEarly(returned)
     \/ /\ disk' = disk
        /\ ReturnEarly(IF returned = "nil" THEN "error" ELSE returned)
  /\ UNCHANGED <<sthDir, processVars, clock, badEntries, historyVars>>

\* A call of the StateProvider fails before the deferred save is installed.
StateCallFails ==
  /\ pc \in {"idle", "getSTH", "loadState", "loadSTHs", "prune"}
  /\ pc = "idle" => ~cancelled
  /\ pc = "prune" => \E h \in FirstSTHs(sths) : IsOld(h)
  /\ ReturnEarly("error")
  /\ UNCHANGED <<diskVars, processVars, clock, badEntries, historyVars>>

-----------------------------------------------------------------------------
(* The environment. *)

Cancel ==
  /\ pc # "stopped" /\ ~cancelled
  /\ cancelled' = TRUE
  /\ UNCHANGED <<diskVars, memVars, pc, returned, startAtEnd, clock, badEntries, historyVars>>

Crash ==
  /\ pc # "stopped"
  /\ pc' = "stopped" /\ returned' = "crash"
  /\ Forget
  /\ UNCHANGED <<diskVars, processVars, clock, badEntries, historyVars>>

Restart ==
  /\ pc = "stopped"
  /\ pc' = "idle" /\ returned' = "nil"
  /\ cancelled' = FALSE
  /\ startAtEnd' \in BOOLEAN
  /\ UNCHANGED <<diskVars, memVars, clock, badEntries, historyVars>>

Tick ==
  /\ clock < MaxClock
  /\ clock' = clock + 1
  /\ UNCHANGED <<diskVars, memVars, pc, returned, processVars, badEntries, historyVars>>

\* The steps of monitorLogContinously and monitorLog.
MonitorStep ==
  \/ BeginRound \/ StopWhenIdle
  \/ \E h \in Heads : GetSTH(h)
  \/ RequestFails
  \/ LoadState \/ StartAtBeginning \/ StartAtLatestSTH \/ LoadSTHs
  \/ \E h \in sths : PruneSTH(h)
  \/ NothingToDownload \/ StartDownload
  \/ \E leaf \in Leaf : ReceiveEntry(leaf)
  \/ \E h \in sths : VerifySTH(h)
  \/ \E h \in sths : RejectSTH(h)
  \/ FinishEntry \/ FinishDownload \/ DownloadFails \/ DeferredSave

Next ==
  \/ MonitorStep
  \/ ProcessFails \/ StateCallFails
  \/ Cancel \/ Crash \/ Restart \/ Tick

Spec == Init /\ [][Next]_vars

-----------------------------------------------------------------------------
\* Type invariant.
TypeOK ==
  /\ disk \in LogState \cup {NoState} /\ state \in LogState \cup {NoState}
  /\ sthDir \subseteq STH /\ sths \subseteq STH
  /\ pc \in {"idle", "getSTH", "loadState", "loadSTHs", "prune", "receive",
             "verify", "deferred", "stopped"}
  /\ returned \in {"nil", "canceled", "error", "crash"}
  /\ latestSTH \in STH \cup {NoSTH}
  /\ startTime \in Nat /\ downloadEnd \in Nat /\ clock \in Nat /\ badEntries \in Nat
  /\ aliased \in BOOLEAN /\ shouldSaveState \in BOOLEAN
  /\ startAtEnd \in BOOLEAN /\ cancelled \in BOOLEAN
  /\ start \in Nat /\ created \in Nat
  /\ processed \subseteq (Nat \X Leaf) /\ heard \subseteq (Nat \X Nat)

-----------------------------------------------------------------------------
(* Safety. *)

\* Entry i of the persisted download position was given to processLogEntry, as
\* the very leaf the tree holds: wherever a crash, a failed save, a rejected STH
\* or a restart falls, resuming at state.json never skips an entry
\* (monitor.go:173-177: process first, then Add, then save).
NoEntrySkipped ==
  disk # NoState =>
    \A i \in (start + 1)..Size(disk) : <<i, disk.DownloadPosition[i]>> \in processed

\* The tree of the STH in a state, empty when there is none.
TrustedTree(s) ==
  IF s = NoState THEN <<>> ELSE IF s.VerifiedSTH = NoSTH THEN <<>> ELSE TreeOf(s.VerifiedSTH)

SignedTrees == {TreeOf(h) : h \in {g \in Heads : HasTree(g)}}

\* The monitor implements the abstract auditor: the persisted VerifiedSTH was
\* signed by the log, only ever moves to a tree that extends the previous one,
\* and only past entries that were processed (monitor.go:181-206).
A == INSTANCE Auditor WITH
       Signed <- SignedTrees, began <- disk # NoState, first <- start,
       trusted <- TrustedTree(disk), detected <- processed

ImplementsAuditor == A!ASpec

\* Monitor states in which monitorLog holds a *LogState.
InRound == {"loadSTHs", "prune", "receive", "verify", "deferred"}

\* What holds of a LogState, in memory or on disk: its STH was signed by the
\* log and covers a prefix of the verified tree, which is a prefix of the
\* downloaded tree, whose entries after the first from are all in seen.
Audited(s, from, seen) ==
  /\ TrustedTree(s) \in SignedTrees \cup {<<>>}
  /\ IsPrefixOf(TrustedTree(s), s.VerifiedPosition)
  /\ IsPrefixOf(s.VerifiedPosition, s.DownloadPosition)
  /\ \A i \in (from + 1)..Size(s) : <<i, s.DownloadPosition[i]>> \in seen

\* What one task relies on: what it has heard is signed, the states on disk and
\* in memory are audited, and a shared pointer is only shared while the two
\* positions agree.
TaskInv ==
  /\ sthDir \subseteq Heads /\ sths \subseteq Heads
  /\ pc = "loadState" => latestSTH \in Heads
  /\ disk # NoState => Audited(disk, start, processed)
  /\ pc \in InRound =>
       /\ disk # NoState /\ state # NoState
       /\ Audited(state, start, processed)
       /\ aliased => state.VerifiedPosition = state.DownloadPosition

\* The audit survives the round trip between memory and disk: both copies are
\* audited, and the one in memory trusts at least as much as the one on disk.
AuditInv ==
  /\ TaskInv
  /\ pc \in InRound => IsPrefixOf(TrustedTree(disk), TrustedTree(state))

\* Every entry above the starting point and below n has been processed.
ProcessedUpTo(n) ==
  \A i \in (start + 1)..n : \E leaf \in Leaf : <<i, leaf>> \in processed

\* An STH the log has served is either still on file or every entry it covers
\* has been processed: pruning, verification, crashes between RemoveSTH and
\* StoreLogState and rollbacks never lose the only trace of unread entries
\* (monitor.go:86, 130-136, 195).
NoSTHForgotten ==
  \A r \in heard : (\E h \in sthDir : h.TreeSize = r[2]) \/ ProcessedUpTo(r[2])

\* LastSuccess means caught up: when state.json says the log was last monitored
\* successfully at T, every STH obtained in a round that began before T has
\* been read completely.  (The state of a new log gets its own creation time,
\* monitor.go:107, 114, and promises nothing.)
LastSuccessSound ==
  disk # NoState /\ disk.LastSuccess > created =>
    \A r \in heard : r[1] < disk.LastSuccess => ProcessedUpTo(r[2])

-----------------------------------------------------------------------------
(* Liveness.  Every call of monitorLog returns (requests have timeouts and a *)
(* bounded number of retries), so its steps are weakly fair.  That the log   *)
(* answers now and then, with its newest STH, is the assumption behind       *)
(* "most log errors are transient" and is strong fairness.                   *)

Fairness ==
  /\ WF_vars(MonitorStep)
  /\ SF_vars(\E t \in Timestamp : GetSTH(TreeHead(Len(Log), t)))
  /\ SF_vars(\E leaf \in Leaf : ReceiveEntry(leaf))
  /\ SF_vars(StartAtLatestSTH)

FairSpec == Spec /\ Fairness

\* While the process stays up, the whole log is eventually downloaded, verified
\* and saved, however many requests fail on the way and wherever earlier
\* processes were stopped or killed.
EventuallyCaughtUp ==
  <>[](pc # "stopped") => <>(disk # NoState /\ disk.VerifiedPosition = Log)

\* man/certspotter.md:180-182: after a problem with a log certspotter "will try
\* monitoring the log again later; most log errors are transient": a log that
\* once returned a wrong entry, and is honest ever after, is caught up with.
RecoversFromWrongEntry ==
  <>[](pc # "stopped") => <>(disk # NoState /\ disk.VerifiedPosition = Log)

\* A cancelled monitor stops, from wherever in the round it was.
CancelStops == cancelled ~> pc = "stopped"

=============================================================================
