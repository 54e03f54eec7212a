----------------------------- MODULE NotifyCert -----------------------------
(***************************************************************************)
(* From a downloaded entry to the user's notification: processLogEntry     *)
(* (monitor/process.go), NotifyCert and NotifyMalformedEntry               *)
(* (monitor/fsstate.go) and notify (monitor/notify.go).  The goroutines of *)
(* several logs come across the same certificate, share the directory      *)
(* certs/ without a lock, and may be interrupted at every file they write  *)
(* and every channel they notify.                                          *)
(*                                                                         *)
(* Parsing and matching are reduced to their outcome: an entry is          *)
(* malformed, on the watch list, or neither.  A certificate on the watch   *)
(* list stands for its fingerprint.                                        *)
(***************************************************************************)
EXTENDS Integers, Sequences, FiniteSets

CONSTANTS
  Log,
  Entries,           \* for each log, its entries in order
  Malformed,         \* entries that cannot be parsed
  Watched,           \* certificates that match the watch list
  Legacy,            \* those with a .cert.pem or .precert.pem of an old version
  Channels,          \* the channels that are configured, in the order of notify
  Stdout,            \* the one that cannot fail
  MaxInterruptions   \* bound on the number of failures and crashes

ASSUME NotifyAssumption ==
  /\ IsFiniteSet(Log) /\ \A l \in Log : Entries[l] \in Seq(Malformed \cup Watched \cup {"other"})
  /\ Malformed \cap Watched = {} /\ Legacy \subseteq Watched
  /\ Len(Channels) \in Nat \ {0} /\ MaxInterruptions \in Nat

VARIABLES
  saveCerts,      \* the flag -no_save is absent
  up,             \* the process runs
  pos,            \* entries of each log processed by this process or before
  saved,          \* the download position in each log's state.json
  wpc, step,      \* what each log's goroutine is doing
  files,          \* every <<event, file>> written
  notified,       \* certificates with a .notified file
  delivered,      \* history: every <<event, channel>> served
  notices,        \* history: how often each certificate was announced
  interruptions

workers == <<pos, wpc, step>>
history == <<delivered, notices>>
vars == <<saveCerts, up, workers, saved, files, notified, history, interruptions>>

Init ==
  /\ saveCerts \in BOOLEAN /\ up = TRUE
  /\ pos = [l \in Log |-> 0] /\ saved = pos
  /\ wpc = [l \in Log |-> "next"] /\ step = [l \in Log |-> 0]
  /\ files = {} /\ notified = {}
  /\ delivered = {} /\ notices = [c \in Watched |-> 0] /\ interruptions = 0

Current(l) == Entries[l][pos[l] + 1]

\* A malformed entry is an event of its log, a certificate one of the process.
Event(l, i) == IF Entries[l][i] \in Malformed THEN <<l, i>> ELSE Entries[l][i]

\* writeCertFiles and NotifyMalformedEntry, in this order.
Files(e) == IF e \in Malformed THEN <<"json", "txt">> ELSE <<"pem", "json", "txt">>

Goto(l, state) ==
  /\ wpc' = [wpc EXCEPT ![l] = state] /\ step' = [step EXCEPT ![l] = 0]
  /\ UNCHANGED pos

\* processLogEntry returns nil: monitorLog adds the entry to the tree.
EntryDone(l) ==
  /\ wpc' = [wpc EXCEPT ![l] = "next"] /\ step' = [step EXCEPT ![l] = 0]
  /\ pos' = [pos EXCEPT ![l] = @ + 1]

-----------------------------------------------------------------------------
(* processLogEntry. *)

ProcessLogEntry(l) ==
  /\ up /\ wpc[l] = "next" /\ pos[l] < Len(Entries[l])
  /\ \/ Current(l) \in Malformed /\ Goto(l, "write")
     \/ Current(l) \in Watched /\ Goto(l, "check")
     \/ Current(l) \notin Malformed \cup Watched /\ EntryDone(l)
  /\ UNCHANGED <<saveCerts, up, saved, files, notified, history, interruptions>>

\* Mutant: the presence of the certificate's own files counts as notified.
Mut_SeenIfFileExists(c) == <<c, "pem">> \in files \/ c \in Legacy

WasNotified(c) == c \in notified \cup Legacy

\* Mutant: a directory that exists already is an error, and is tried again.
Mut_CheckNotifiedMkdirRetries(l) ==
  /\ up /\ wpc[l] = "check"
  /\ \/ saveCerts /\ WasNotified(Current(l)) /\ EntryDone(l)
     \/ saveCerts /\ ~WasNotified(Current(l))
        /\ Goto(l, IF <<Current(l), "pem">> \in files THEN "check" ELSE "write")
     \/ ~saveCerts /\ Goto(l, "notify")
  /\ UNCHANGED <<saveCerts, up, saved, files, notified, history, interruptions>>

\* NotifyCert up to the creation of the certificate's directory.
CheckNotified(l) ==
  /\ up /\ wpc[l] = "check"
  /\ \/ saveCerts /\ WasNotified(Current(l)) /\ EntryDone(l)
     \/ saveCerts /\ ~WasNotified(Current(l)) /\ Goto(l, "write")
     \/ ~saveCerts /\ Goto(l, "notify")
  /\ UNCHANGED <<saveCerts, up, saved, files, notified, history, interruptions>>

\* Mutant: the scripts are started before the last file is there.
Mut_WriteFileEarly(l) ==
  /\ up /\ wpc[l] = "write"
  /\ LET n == step[l] + 1 IN
       /\ files' = files \cup {<<Event(l, pos[l] + 1), Files(Current(l))[n]>>}
       /\ IF n = Len(Files(Current(l))) - 1 THEN Goto(l, "notify")
          ELSE step' = [step EXCEPT ![l] = n] /\ UNCHANGED <<pos, wpc>>
  /\ UNCHANGED <<saveCerts, up, saved, notified, history, interruptions>>

\* writeFile: a temporary file and a rename, so a file is there whole or not.
WriteFile(l) ==
  /\ up /\ wpc[l] = "write"
  /\ LET n == step[l] + 1 IN
       /\ files' = files \cup {<<Event(l, pos[l] + 1), Files(Current(l))[n]>>}
       /\ IF n = Len(Files(Current(l))) THEN Goto(l, "notify")
          ELSE step' = [step EXCEPT ![l] = n] /\ UNCHANGED <<pos, wpc>>
  /\ UNCHANGED <<saveCerts, up, saved, notified, history, interruptions>>

Announced(l) ==
  IF Current(l) \in Watched /\ step[l] = 0 THEN [notices EXCEPT ![Current(l)] = @ + 1]
  ELSE notices

\* All channels were served.
AfterNotify(l) ==
  IF Current(l) \in Watched /\ saveCerts THEN Goto(l, "mark") ELSE EntryDone(l)

\* notify serves one channel after the other.
Notify(l) ==
  /\ up /\ wpc[l] = "notify"
  /\ LET n == step[l] + 1 IN
       /\ delivered' = delivered \cup {<<Event(l, pos[l] + 1), Channels[n]>>}
       /\ notices' = Announced(l)
       /\ IF n = Len(Channels) THEN AfterNotify(l)
          ELSE step' = [step EXCEPT ![l] = n] /\ UNCHANGED <<pos, wpc>>
  /\ UNCHANGED <<saveCerts, up, saved, files, notified, interruptions>>

\* Mutant: .notified is not written.
Mut_MarkForgotten(l) ==
  /\ up /\ wpc[l] = "mark"
  /\ EntryDone(l)
  /\ UNCHANGED <<saveCerts, up, saved, files, notified, history, interruptions>>

MarkNotified(l) ==
  /\ up /\ wpc[l] = "mark"
  /\ notified' = notified \cup {Current(l)}
  /\ EntryDone(l)
  /\ UNCHANGED <<saveCerts, up, saved, files, history, interruptions>>

\* A file cannot be written, sendmail or a script fails, or ctx is cancelled:
\* the error ends the goroutine, and through the errgroup the process.
StepFails(l) ==
  /\ up /\ interruptions < MaxInterruptions
  /\ \/ wpc[l] \in {"write", "mark"}
     \/ wpc[l] = "check" /\ saveCerts
     \/ wpc[l] = "notify" /\ Channels[step[l] + 1] # Stdout
  /\ Goto(l, "failed")
  /\ UNCHANGED <<saveCerts, up, saved, files, notified, history, interruptions>>

-----------------------------------------------------------------------------
(* Positions and the process. *)

\* StoreLogState between two entries.
SavePosition(l) ==
  /\ up /\ wpc[l] = "next" /\ saved[l] # pos[l]
  /\ saved' = [saved EXCEPT ![l] = pos[l]]
  /\ UNCHANGED <<saveCerts, up, workers, files, notified, history, interruptions>>

\* The process ends, by an error, a signal or a crash; each log's deferred save
\* may or may not have happened.
ProcessEnds ==
  /\ up /\ interruptions < MaxInterruptions
  /\ up' = FALSE /\ interruptions' = interruptions + 1
  /\ \E done \in SUBSET Log :
       saved' = [l \in Log |-> IF l \in done THEN pos[l] ELSE saved[l]]
  /\ UNCHANGED <<saveCerts, workers, files, notified, history>>

Restart ==
  /\ ~up /\ up' = TRUE
  /\ pos' = saved
  /\ wpc' = [l \in Log |-> "next"] /\ step' = [l \in Log |-> 0]
  /\ UNCHANGED <<saveCerts, saved, files, notified, history, interruptions>>

Finished == \A l \in Log : pos[l] = Len(Entries[l]) /\ saved[l] = pos[l]

WorkerStep(l) ==
  ProcessLogEntry(l) \/ CheckNotified(l) \/ WriteFile(l) \/ Notify(l) \/ MarkNotified(l)

Next ==
  \/ \E l \in Log : WorkerStep(l)
  \/ \E l \in Log : StepFails(l)
  \/ \E l \in Log : SavePosition(l)
  \/ ProcessEnds \/ Restart
  \/ Finished /\ UNCHANGED vars

Spec == Init /\ [][Next]_vars

\* Goroutines are scheduled, a failed one ends the process, and it is restarted.
FairSpec ==
  /\ Spec /\ WF_vars(Restart) /\ WF_vars((\E l \in Log : wpc[l] = "failed") /\ ProcessEnds)
  /\ \A l \in Log : WF_vars(WorkerStep(l))

-----------------------------------------------------------------------------
\* Type invariant.
TypeOK ==
  /\ \A l \in Log : pos[l] \in 0..Len(Entries[l]) /\ saved[l] \in 0..Len(Entries[l])
  /\ \A l \in Log : wpc[l] \in {"next", "check", "write", "notify", "mark", "failed"}
  /\ \A l \in Log : step[l] \in Nat
  /\ notified \subseteq Watched /\ up \in BOOLEAN /\ saveCerts \in BOOLEAN

NeedsNotice(e) == e \in Malformed \/ e \in Watched \ Legacy

AllServed(event) == \A k \in 1..Len(Channels) : <<event, Channels[k]>> \in delivered

\* Every entry a log has left behind, in memory or in its state.json, was
\* announced through every configured channel, by this log or by another one:
\* the .notified file of one log never silences a notification that was not
\* made (fsstate.go:111-115, 134-147).
NoMissedNotification ==
  \A l \in Log : \A i \in 1..Len(Entries[l]) :
    NeedsNotice(Entries[l][i]) /\ (i <= pos[l] \/ i <= saved[l])
      => AllServed(Event(l, i))

\* When a channel is served, the files whose names it is given all exist
\* (fsstate.go:127-139, 176-195).
FilesExistWhenNotified ==
  \A l \in Log :
    up /\ wpc[l] = "notify" /\ (saveCerts \/ Current(l) \in Malformed)
      => \A k \in 1..Len(Files(Current(l))) : <<Event(l, pos[l] + 1), Files(Current(l))[k]>> \in files

\* A certificate is announced again only because another log was announcing it
\* at the same time or because a process was interrupted (fsstate.go:111, 144).
DuplicatesBounded ==
  saveCerts => \A c \in Watched : notices[c] <= Cardinality(Log) * (interruptions + 1)

\* However the processes are interrupted, all entries are eventually processed.
AllProcessed == <>(\A l \in Log : pos[l] = Len(Entries[l]))

=============================================================================
