-------------------------- MODULE NotifyCertProofs --------------------------
(***************************************************************************)
(* Theorems about NotifyCert: no entry is left behind without its          *)
(* notification, and the files that a channel is told about exist.  The    *)
(* inductive invariant adds, for each control state of a log's goroutine,  *)
(* what has been written and served so far, and that a .notified file      *)
(* stands for a certificate that all channels were served for.             *)
(***************************************************************************)
EXTENDS NotifyCert, FiniteSetTheorems, TLAPS

TypeInv ==
  /\ pos \in [Log -> Nat] /\ saved \in [Log -> Nat] /\ step \in [Log -> Nat]
  /\ wpc \in [Log -> {"next", "check", "write", "notify", "mark", "failed"}]
  /\ \A l \in Log : pos[l] <= Len(Entries[l]) /\ saved[l] <= Len(Entries[l])
  /\ notified \subseteq Watched /\ up \in BOOLEAN /\ saveCerts \in BOOLEAN

\* The first n channels were served, or the first n files written, for log l's entry.
Served(l, n) == \A k \in 1..n : <<Event(l, pos[l] + 1), Channels[k]>> \in delivered
Written(l, n) == \A k \in 1..n : <<Event(l, pos[l] + 1), Files(Current(l))[k]>> \in files

\* What a goroutine has done when it is in a control state.
Progress(l) ==
  /\ wpc[l] \in {"check", "write", "notify", "mark"} => pos[l] < Len(Entries[l])
  /\ wpc[l] \in {"check", "mark"} => Current(l) \in Watched
  /\ wpc[l] = "write" => step[l] < Len(Files(Current(l))) /\ Written(l, step[l])
  /\ wpc[l] = "notify" =>
       /\ step[l] < Len(Channels) /\ Served(l, step[l])
       /\ saveCerts \/ Current(l) \in Malformed => Written(l, Len(Files(Current(l))))
  /\ wpc[l] = "mark" => Served(l, Len(Channels))

NotifiedMeansServed == \A c \in notified : AllServed(c)

LeftBehind(l, n) ==
  \A i \in 1..Len(Entries[l]) : NeedsNotice(Entries[l][i]) /\ i <= n => AllServed(Event(l, i))

IInv ==
  /\ TypeInv
  /\ \A l \in Log : Progress(l) /\ LeftBehind(l, pos[l]) /\ LeftBehind(l, saved[l])
  /\ NotifiedMeansServed

\* The files of an event are two or three (writeCertFiles, NotifyMalformedEntry).
LEMMA FilesLen == \A e : Len(Files(e)) \in {2, 3}
  BY DEF Files

\* What was served stays served.
LEMMA ServedStays ==
  ASSUME delivered \subseteq delivered'
  PROVE  /\ \A e : AllServed(e) => AllServed(e)'
         /\ \A l, n : LeftBehind(l, n) => LeftBehind(l, n)'
  BY DEF AllServed, LeftBehind, Event

\* A step of another log's goroutine keeps what this one has done.
LEMMA ProgressStays ==
  ASSUME NEW l \in Log, Progress(l),
         files \subseteq files', delivered \subseteq delivered', UNCHANGED saveCerts,
         pos'[l] = pos[l], wpc'[l] = wpc[l], step'[l] = step[l]
  PROVE  Progress(l)'
  BY DEF Progress, Served, Written, Current, Event

\* The invariant holds when certspotter is started with an empty state directory.
LEMMA InitIInv == Init => IInv
<1> SUFFICES ASSUME Init PROVE IInv
  OBVIOUS
<1>1. \A l \in Log : Len(Entries[l]) \in Nat
  BY NotifyAssumption
<1>2. TypeInv
  BY <1>1 DEF Init, TypeInv
<1>3. \A l \in Log : Progress(l) /\ LeftBehind(l, pos[l]) /\ LeftBehind(l, saved[l])
  BY <1>1 DEF Init, Progress, LeftBehind
<1> QED BY <1>2, <1>3 DEF Init, IInv, NotifiedMeansServed

\* A step of log l's goroutine within one entry keeps the invariant if it keeps
\* the types and what that goroutine has done.
LEMMA StepWithinEntry ==
  ASSUME IInv, NEW l \in Log, TypeInv', Progress(l)',
         files \subseteq files', delivered \subseteq delivered',
         UNCHANGED <<saveCerts, pos, saved, notified>>,
         \A m \in Log \ {l} : wpc'[m] = wpc[m] /\ step'[m] = step[m]
  PROVE  IInv'
<1>1. \A m \in Log : Progress(m)'
  BY ProgressStays DEF IInv
<1>2. \A m \in Log : LeftBehind(m, pos[m])' /\ LeftBehind(m, saved[m])'
  BY ServedStays DEF IInv
<1>3. NotifiedMeansServed'
  BY ServedStays DEF IInv, NotifiedMeansServed
<1> QED BY <1>1, <1>2, <1>3 DEF IInv

\* What Goto does, and leaves alone.
LEMMA GotoEffect ==
  ASSUME TypeInv, NEW l \in Log, NEW s \in {"next", "check", "write", "notify", "mark", "failed"},
         Goto(l, s), UNCHANGED <<saveCerts, up, saved, notified>>
  PROVE  /\ TypeInv' /\ UNCHANGED pos
         /\ wpc'[l] = s /\ step'[l] = 0
         /\ \A m \in Log \ {l} : wpc'[m] = wpc[m] /\ step'[m] = step[m]
  BY DEF Goto, TypeInv

\* A goroutine that is about to write the first file of an entry.
LEMMA StartWriting ==
  ASSUME NEW l \in Log, wpc'[l] = "write", step'[l] = 0, pos'[l] < Len(Entries[l])
  PROVE  Progress(l)'
<1>1. (0 < Len(Files(Current(l))))'
  BY DEF Files
<1>2. Written(l, step[l])'
  BY DEF Written
<1> QED BY <1>1, <1>2 DEF Progress

\* What advancing step does, and leaves alone.
LEMMA StepEffect ==
  ASSUME TypeInv, NEW l \in Log, step' = [step EXCEPT ![l] = step[l] + 1],
         UNCHANGED <<saveCerts, up, saved, notified, pos, wpc>>
  PROVE  /\ TypeInv' /\ step'[l] = step[l] + 1
         /\ \A m \in Log \ {l} : wpc'[m] = wpc[m] /\ step'[m] = step[m]
  BY DEF TypeInv

\* Finishing an entry keeps the invariant if its notification was made.
LEMMA EntryDoneKeeps ==
  ASSUME IInv, NEW l \in Log, EntryDone(l), pos[l] < Len(Entries[l]),
         files \subseteq files', delivered \subseteq delivered',
         UNCHANGED <<saveCerts, up, saved>>,
         NEW n, n = pos[l] + 1, NeedsNotice(Entries[l][n]) => AllServed(Event(l, n))',
         notified' \subseteq Watched, NotifiedMeansServed'
  PROVE  IInv'
<1>1. TypeInv /\ Len(Entries[l]) \in Nat
  BY NotifyAssumption DEF IInv
<1>2. TypeInv'
  BY <1>1 DEF TypeInv, EntryDone
<1>3. \A m \in Log \ {l} : pos'[m] = pos[m] /\ wpc'[m] = wpc[m] /\ step'[m] = step[m]
  BY <1>1 DEF EntryDone, TypeInv
<1>4. pos'[l] = pos[l] + 1 /\ wpc'[l] = "next"
  BY <1>1 DEF EntryDone, TypeInv
<1>5. \A m \in Log : Progress(m)'
  <2>1. Progress(l)'
    BY <1>4 DEF Progress
  <2> QED BY <2>1, <1>3, ProgressStays DEF IInv
<1>6. \A m \in Log : LeftBehind(m, saved[m])'
  BY ServedStays DEF IInv
<1>7. \A m \in Log \ {l} : LeftBehind(m, pos[m])'
  BY <1>3, ServedStays DEF IInv
<1>8. LeftBehind(l, pos[l])'
  <2>1. \A i \in 1..Len(Entries[l]) : i <= n => i <= pos[l] \/ i = n
    BY <1>1 DEF TypeInv
  <2>2. \A i \in 1..Len(Entries[l]) : NeedsNotice(Entries[l][i]) /\ i <= pos[l] => AllServed(Event(l, i))'
    BY ServedStays DEF IInv, LeftBehind
  <2> QED BY <1>4, <2>1, <2>2 DEF LeftBehind
<1> QED BY <1>2, <1>5, <1>6, <1>7, <1>8 DEF IInv

\* Saving any of the positions in memory keeps the invariant.
LEMMA PositionsSaved ==
  ASSUME IInv, TypeInv', UNCHANGED <<saveCerts, pos, wpc, step, files, delivered, notified>>,
         \A m \in Log : saved'[m] \in {saved[m], pos[m]}
  PROVE  IInv'
<1>1. \A m \in Log : Progress(m)'
  BY ProgressStays DEF IInv
<1>2. \A m \in Log : LeftBehind(m, pos[m])' /\ LeftBehind(m, saved[m])'
  BY ServedStays DEF IInv
<1> QED BY <1>1, <1>2, ServedStays DEF IInv, NotifiedMeansServed

\* Every step of a goroutine or of the process keeps the invariant.
LEMMA NextIInv == IInv /\ [Next]_vars => IInv'
<1> SUFFICES ASSUME IInv, [Next]_vars PROVE IInv'
  OBVIOUS
<1> USE NotifyAssumption
<1>1. TypeInv /\ \A l \in Log : Progress(l) /\ Len(Entries[l]) \in Nat
  BY DEF IInv
<1>2. ASSUME NEW l \in Log, ProcessLogEntry(l) PROVE IInv'
  <2>1. CASE Current(l) \in Malformed /\ Goto(l, "write")
    <3>1. Progress(l)'
      BY <1>1, <1>2, <2>1, StartWriting, GotoEffect DEF ProcessLogEntry
    <3> QED BY <1>1, <1>2, <2>1, <3>1, GotoEffect, StepWithinEntry DEF ProcessLogEntry, history
  <2>2. CASE Current(l) \in Watched /\ Goto(l, "check")
    <3>1. Progress(l)'
      BY <1>1, <1>2, <2>2, GotoEffect DEF ProcessLogEntry, Progress, Current
    <3> QED BY <1>1, <1>2, <2>2, <3>1, GotoEffect, StepWithinEntry DEF ProcessLogEntry, history
  <2>3. CASE Current(l) \notin Malformed \cup Watched /\ EntryDone(l)
    <3>1. ~NeedsNotice(Entries[l][pos[l] + 1])
      BY <2>3 DEF NeedsNotice, Current
    <3> QED BY <1>2, <2>3, <3>1, EntryDoneKeeps DEF ProcessLogEntry, IInv, TypeInv, NotifiedMeansServed, AllServed, history
  <2> QED BY <1>2, <2>1, <2>2, <2>3 DEF ProcessLogEntry
<1>3. ASSUME NEW l \in Log, CheckNotified(l) PROVE IInv'
  <2>0. Current(l) \in Watched /\ pos[l] < Len(Entries[l])
    BY <1>1, <1>3 DEF CheckNotified, Progress
  <2>1. CASE saveCerts /\ WasNotified(Current(l)) /\ EntryDone(l)
    <3>1. NeedsNotice(Current(l)) => AllServed(Current(l)) /\ Current(l) = Event(l, pos[l] + 1)
      BY <2>0, <2>1 DEF IInv, NotifiedMeansServed, NeedsNotice, WasNotified, Current, Event
    <3> QED BY <1>3, <2>0, <2>1, <3>1, EntryDoneKeeps
        DEF CheckNotified, IInv, TypeInv, NotifiedMeansServed, AllServed, Current, history
  <2>2. CASE saveCerts /\ ~WasNotified(Current(l)) /\ Goto(l, "write")
    <3>1. Progress(l)'
      BY <1>1, <1>3, <2>0, <2>2, StartWriting, GotoEffect DEF CheckNotified
    <3> QED BY <1>1, <1>3, <2>2, <3>1, GotoEffect, StepWithinEntry DEF CheckNotified, history
  <2>3. CASE ~saveCerts /\ Goto(l, "notify")
    <3>1. Progress(l)'
      BY <1>1, <1>3, <2>0, <2>3, GotoEffect DEF CheckNotified, Progress, Current, Served
    <3> QED BY <1>1, <1>3, <2>3, <3>1, GotoEffect, StepWithinEntry DEF CheckNotified, history
  <2> QED BY <1>3, <2>1, <2>2, <2>3 DEF CheckNotified
<1>4. ASSUME NEW l \in Log, WriteFile(l) PROVE IInv'
  <2> DEFINE n == step[l] + 1
  <2>1. /\ step[l] \in Nat /\ n <= Len(Files(Current(l))) /\ Len(Files(Current(l))) \in Nat
        /\ Written(l, step[l]) /\ pos[l] < Len(Entries[l])
    BY <1>1, <1>4, FilesLen DEF WriteFile, Progress, TypeInv
  <2>2. /\ files' = files \cup {<<Event(l, pos[l] + 1), Files(Current(l))[n]>>}
        /\ UNCHANGED <<pos, saveCerts, up, saved, notified, delivered>>
    BY <1>4 DEF WriteFile, Goto, history
  <2>3. \A k \in 1..n : <<Event(l, pos[l] + 1), Files(Current(l))[k]>> \in files'
    BY <2>1, <2>2 DEF Written
  <2>4. CASE n = Len(Files(Current(l))) /\ Goto(l, "notify")
    <3>1. Written(l, Len(Files(Current(l))))'
      BY <2>2, <2>3, <2>4 DEF Written, Event, Current
    <3>2. Progress(l)'
      BY <1>1, <2>1, <2>2, <2>4, <3>1, GotoEffect DEF Progress, Served
    <3> QED BY <1>1, <2>2, <2>4, <3>2, GotoEffect, StepWithinEntry
  <2>5. CASE n # Len(Files(Current(l))) /\ step' = [step EXCEPT ![l] = n] /\ UNCHANGED wpc
    <3>1. step'[l] = n /\ TypeInv'
      BY <1>1, <2>2, <2>5, StepEffect
    <3>2. Written(l, step[l])'
      BY <2>2, <2>3, <3>1 DEF Written, Event, Current
    <3>3. wpc'[l] = "write" /\ UNCHANGED pos /\ step'[l] < Len(Files(Current(l)))
      <4>1. wpc'[l] = "write" /\ UNCHANGED pos
        BY Zenon, <1>4, <2>2, <2>5 DEF WriteFile
      <4>2. step'[l] < Len(Files(Current(l)))
        BY <2>1, <2>5, <3>1
      <4> QED BY <4>1, <4>2
    <3>4. (pos[l] < Len(Entries[l]) /\ step[l] < Len(Files(Current(l))))'
      BY <2>1, <3>3 DEF Current, Files
    <3>5. Progress(l)'
      BY <3>2, <3>3, <3>4 DEF Progress
    <3> QED BY <1>1, <2>2, <2>5, <3>1, <3>5, StepEffect, StepWithinEntry
  <2> QED BY <1>4, <2>4, <2>5 DEF WriteFile
<1>5. ASSUME NEW l \in Log, Notify(l) PROVE IInv'
  <2> DEFINE n == step[l] + 1
  <2> PICK i : i = pos[l] + 1
    OBVIOUS
  <2>1. /\ step[l] \in Nat /\ n <= Len(Channels) /\ Len(Channels) \in Nat
        /\ Served(l, step[l]) /\ pos[l] < Len(Entries[l])
        /\ saveCerts \/ Current(l) \in Malformed => Written(l, Len(Files(Current(l))))
    BY <1>1, <1>5 DEF Notify, Progress, TypeInv
  <2>2. /\ delivered' = delivered \cup {<<Event(l, i), Channels[n]>>}
        /\ UNCHANGED <<saveCerts, up, saved, files, notified>>
    BY <1>5 DEF Notify
  <2>3. \A k \in 1..n : <<Event(l, i), Channels[k]>> \in delivered'
    BY <2>1, <2>2 DEF Served
  <2>4. CASE n = Len(Channels) /\ Goto(l, "mark") /\ Current(l) \in Watched
    <3>1. Served(l, Len(Channels))'
      BY <1>1, <2>2, <2>3, <2>4, GotoEffect DEF Served, Event
    <3>2. Progress(l)'
      BY <1>1, <2>1, <2>2, <2>4, <3>1, GotoEffect DEF Progress, Current
    <3> QED BY <1>1, <2>2, <2>4, <3>2, GotoEffect, StepWithinEntry
  <2>5. CASE n = Len(Channels) /\ EntryDone(l)
    <3> DEFINE e == Event(l, i)
    <3>1. \A k \in 1..Len(Channels) : <<e, Channels[k]>> \in delivered'
      BY <2>3, <2>5
    <3>2. NotifiedMeansServed' /\ notified' \subseteq Watched
      BY <1>1, <2>2, ServedStays DEF IInv, TypeInv, NotifiedMeansServed
    <3>3. AllServed(Event(l, i))'
      BY <3>1 DEF AllServed, Event
    <3> QED BY <1>1, <2>1, <2>2, <2>5, <3>2, <3>3, EntryDoneKeeps
  <2>6. CASE n # Len(Channels) /\ step' = [step EXCEPT ![l] = n] /\ UNCHANGED <<pos, wpc>>
    <3>1. step'[l] = n /\ TypeInv'
      BY <1>1, <2>2, <2>6, StepEffect
    <3>2. Served(l, step[l])'
      BY <2>2, <2>3, <2>6, <3>1 DEF Served, Event
    <3>3. (saveCerts \/ Current(l) \in Malformed => Written(l, Len(Files(Current(l)))))'
      BY <2>1, <2>2, <2>6 DEF Written, Current, Event, Files
    <3>4. Progress(l)'
      BY SMTT(40), <1>5, <2>1, <2>6, <3>1, <3>2, <3>3 DEF Notify, Progress
    <3> QED BY <1>1, <2>2, <2>6, <3>1, <3>4, StepEffect, StepWithinEntry
  <2> QED BY <1>5, <2>4, <2>5, <2>6 DEF Notify, AfterNotify
<1>6. ASSUME NEW l \in Log, MarkNotified(l) PROVE IInv'
  <2>1. Current(l) \in Watched /\ pos[l] < Len(Entries[l]) /\ Served(l, Len(Channels))
    BY <1>1, <1>6 DEF MarkNotified, Progress
  <2>2. Current(l) = Event(l, pos[l] + 1) /\ AllServed(Current(l))
    BY <2>1 DEF Served, AllServed, Event, Current
  <2>3. EntryDone(l) /\ notified' = notified \cup {Current(l)} /\ UNCHANGED <<saveCerts, up, saved, files, delivered>>
    BY <1>6 DEF MarkNotified, history
  <2>4. NotifiedMeansServed' /\ notified' \subseteq Watched
    BY <1>1, <2>1, <2>2, <2>3 DEF IInv, TypeInv, NotifiedMeansServed, AllServed
  <2> QED BY <2>1, <2>2, <2>3, <2>4, EntryDoneKeeps DEF AllServed, Current
<1>7. ASSUME NEW l \in Log, StepFails(l) PROVE IInv'
  <2>1. TypeInv' /\ (\A m \in Log \ {l} : wpc'[m] = wpc[m] /\ step'[m] = step[m])
    BY <1>1, <1>7 DEF StepFails, Goto, TypeInv
  <2>2. Progress(l)'
    BY <1>1, <1>7 DEF StepFails, Goto, TypeInv, Progress
  <2> QED BY <1>7, <2>1, <2>2, StepWithinEntry DEF StepFails, Goto, history
<1>8. ASSUME NEW l \in Log, SavePosition(l) PROVE IInv'
  <2>1. TypeInv' /\ (\A m \in Log : saved'[m] \in {saved[m], pos[m]})
    BY <1>1, <1>8 DEF SavePosition, workers, TypeInv
  <2> QED BY <1>8, <2>1, PositionsSaved DEF SavePosition, workers, history
<1>9. CASE ProcessEnds
  <2>1. TypeInv' /\ (\A m \in Log : saved'[m] \in {saved[m], pos[m]})
    BY <1>1, <1>9 DEF ProcessEnds, workers, TypeInv
  <2> QED BY <1>9, <2>1, PositionsSaved DEF ProcessEnds, workers, history
<1>10. CASE Restart
  <2>1. TypeInv'
    BY <1>1, <1>10 DEF Restart, TypeInv
  <2>2. \A m \in Log : Progress(m)'
    BY <1>10 DEF Restart, Progress
  <2> QED BY <1>10, <2>1, <2>2, ServedStays DEF Restart, history, IInv, NotifiedMeansServed
<1>11. CASE UNCHANGED vars
  <2>1. TypeInv' /\ (\A m \in Log : saved'[m] \in {saved[m], pos[m]})
    BY <1>1, <1>11 DEF vars, workers, TypeInv
  <2> QED BY <1>11, <2>1, PositionsSaved DEF vars, workers, history
<1> QED BY <1>2, <1>3, <1>4, <1>5, <1>6, <1>7, <1>8, <1>9, <1>10, <1>11 DEF Next, WorkerStep

\* The invariant holds throughout.
LEMMA AlwaysIInv == Spec => []IInv
  BY InitIInv, NextIInv, PTL DEF Spec

\* Type correctness of the goroutines' and the process's state.
THEOREM NotifyTypes == Spec => []TypeOK
<1>1. IInv => TypeOK
  BY DEF IInv, TypeInv, TypeOK
<1> QED BY AlwaysIInv, <1>1, PTL

\* For any number of logs, channels, certificates and interruptions: whatever a
\* log has left behind was announced through every channel (NotifyCert).
THEOREM NoNotificationIsMissed == Spec => []NoMissedNotification
<1>1. IInv => NoMissedNotification
  BY DEF IInv, LeftBehind, NoMissedNotification
<1> QED BY AlwaysIInv, <1>1, PTL

\* The files a channel is told about exist when it is served, also when another
\* log's goroutine is writing the same files (writeCertFiles).
THEOREM FilesAreThere == Spec => []FilesExistWhenNotified
<1>1. IInv => FilesExistWhenNotified
  BY DEF IInv, Progress, Written, FilesExistWhenNotified
<1> QED BY AlwaysIInv, <1>1, PTL

-----------------------------------------------------------------------------
(* How often a certificate is announced. *)

\* The goroutine of l has passed the check for .notified, and will announce cert.
WillAnnounce(l, cert) ==
  Current(l) = cert /\ (wpc[l] = "write" \/ (wpc[l] = "notify" /\ step[l] = 0))

\* It has announced cert and has not written .notified yet, or it has failed.
HasAnnounced(l, cert) ==
  wpc[l] = "failed" \/ (Current(l) = cert /\ (wpc[l] = "mark" \/ (wpc[l] = "notify" /\ step[l] # 0)))

\* The logs that will not announce cert again before the process ends.
Spent(cert) ==
  {l \in Log : up /\ (HasAnnounced(l, cert) \/ (cert \in notified /\ ~WillAnnounce(l, cert)))}

\* Every process before this one has cost one announcement per log, and this one
\* one for each log that is done with the certificate.
NoticesInv ==
  /\ notices \in [Watched -> Nat] /\ interruptions \in Nat
  /\ saveCerts => \A cert \in Watched :
       notices[cert] <= Cardinality(Log) * interruptions + Cardinality(Spent(cert))

\* The logs are finitely many, and so are those that are done.
LEMMA SpentFinite ==
  \A cert : /\ IsFiniteSet(Spent(cert)) /\ Cardinality(Spent(cert)) \in Nat
            /\ Cardinality(Log) \in Nat /\ Cardinality(Spent(cert)) <= Cardinality(Log)
<1> TAKE cert
<1>1. Spent(cert) \in SUBSET Log /\ IsFiniteSet(Log)
  BY NotifyAssumption DEF Spent
<1> QED BY <1>1, FS_Subset, FS_CardinalityType

\* The same after a step.
LEMMA SpentFiniteAfter ==
  \A cert : IsFiniteSet(Spent(cert)') /\ Cardinality(Spent(cert)') \in Nat
<1> TAKE cert
<1>1. Spent(cert)' \in SUBSET Log /\ IsFiniteSet(Log)
  BY NotifyAssumption DEF Spent
<1> QED BY <1>1, FS_Subset, FS_CardinalityType

\* One more process adds one announcement per log to the bound.
LEMMA OneMoreProcess == \A a, b \in Nat : a * (b + 1) = a * b + a
  OBVIOUS

\* A step that announces nothing and makes no log ready again keeps the bound.
LEMMA NothingAnnounced ==
  ASSUME NoticesInv, UNCHANGED <<saveCerts, notices, interruptions>>,
         saveCerts => \A cert \in Watched : Spent(cert) \subseteq Spent(cert)'
  PROVE  NoticesInv'
<1>1. ASSUME NEW cert \in Watched, saveCerts
      PROVE  notices[cert] <= Cardinality(Log) * interruptions + Cardinality(Spent(cert)')
  <2>1. Cardinality(Spent(cert)) <= Cardinality(Spent(cert)')
    BY <1>1, SpentFiniteAfter, FS_Subset
  <2>2. notices[cert] \in Nat /\ Cardinality(Log) * interruptions \in Nat
    BY SpentFinite DEF NoticesInv
  <2> QED BY <1>1, <2>1, <2>2, SpentFinite, SpentFiniteAfter DEF NoticesInv
<1> QED BY <1>1 DEF NoticesInv

\* The goroutines of other logs stay done.
LEMMA OthersSpent ==
  ASSUME NEW m \in Log, NEW cert, up', notified \subseteq notified', m \in Spent(cert),
         pos'[m] = pos[m], wpc'[m] = wpc[m], step'[m] = step[m]
  PROVE  m \in Spent(cert)'
  BY DEF Spent, HasAnnounced, WillAnnounce, Current

\* A goroutine whose entry is done, or another one, and that has not announced cert
\* without writing .notified, stays done.
LEMMA DoneStaysSpent ==
  ASSUME NEW l \in Log, NEW cert, up', notified \subseteq notified', l \in Spent(cert),
         HasAnnounced(l, cert) => cert \in notified',
         wpc'[l] \in {"next", "check", "mark"}
  PROVE  l \in Spent(cert)'
  BY DEF Spent, WillAnnounce

\* The step in which a goroutine announces a certificate to its first channel: it
\* was not done with it and now is.
LEMMA AnnouncingCounts ==
  ASSUME NoticesInv, IInv, NEW l \in Log, Notify(l), Current(l) \in Watched, step[l] = 0
  PROVE  NoticesInv'
<1> DEFINE c == Current(l)
<1>1. TypeInv /\ Progress(l) /\ up /\ wpc[l] = "notify" /\ up' /\ notified' = notified /\ UNCHANGED <<saveCerts, interruptions>>
  BY DEF IInv, Notify
<1>2. notices' = [notices EXCEPT ![c] = @ + 1]
  BY DEF Notify, Announced
<1>3. \A m \in Log \ {l} : pos'[m] = pos[m] /\ wpc'[m] = wpc[m] /\ step'[m] = step[m]
  BY <1>1 DEF Notify, AfterNotify, Goto, EntryDone, TypeInv
<1>4. ASSUME saveCerts, NEW cert \in Watched
      PROVE  notices'[cert] <= Cardinality(Log) * interruptions + Cardinality(Spent(cert)')
  <2>1. pos'[l] = pos[l] /\ (wpc'[l] = "mark" \/ (wpc'[l] = "notify" /\ step'[l] = 1))
    BY <1>1, <1>4 DEF Notify, AfterNotify, Goto, TypeInv
  <2>2. notices[cert] \in Nat /\ Cardinality(Log) * interruptions \in Nat
    BY SpentFinite DEF NoticesInv
  <2>3. \A m \in Spent(cert) \ {l} : m \in Spent(cert)'
    BY <1>1, <1>3, OthersSpent DEF Spent
  <2>4. CASE cert = c
    <3>1. l \notin Spent(cert)
      BY <1>1, <2>4 DEF Spent, HasAnnounced, WillAnnounce
    <3>2. l \in Spent(cert)'
      BY <1>1, <2>1, <2>4 DEF Spent, HasAnnounced, Current
    <3>3. Spent(cert) \cup {l} \subseteq Spent(cert)'
      BY <2>3, <3>2
    <3>4. Cardinality(Spent(cert)) + 1 <= Cardinality(Spent(cert)')
      <4>1. Cardinality(Spent(cert) \cup {l}) = Cardinality(Spent(cert)) + 1
        BY <3>1, SpentFinite, FS_AddElement
      <4> QED BY <3>3, <4>1, SpentFiniteAfter, FS_Subset
    <3>5. notices'[cert] = notices[cert] + 1
      BY <1>2, <1>4, <2>4 DEF NoticesInv
    <3> QED BY <1>4, <2>2, <3>4, <3>5, SpentFinite, SpentFiniteAfter DEF NoticesInv
  <2>5. CASE cert # c
    <3>1. l \in Spent(cert) => l \in Spent(cert)'
      BY <1>1, <2>1, <2>5 DEF Spent, HasAnnounced, WillAnnounce, Current
    <3>2. Spent(cert) \subseteq Spent(cert)'
      BY <2>3, <3>1
    <3>3. Cardinality(Spent(cert)) <= Cardinality(Spent(cert)')
      BY <3>2, SpentFiniteAfter, FS_Subset
    <3>4. notices'[cert] = notices[cert]
      BY <1>2, <2>5 DEF NoticesInv
    <3> QED BY <1>4, <2>2, <3>3, <3>4, SpentFinite, SpentFiniteAfter DEF NoticesInv
  <2> QED BY <2>4, <2>5
<1>5. notices' \in [Watched -> Nat]
  BY <1>2 DEF NoticesInv
<1> QED BY <1>1, <1>4, <1>5 DEF NoticesInv

\* Every step of a goroutine or of the process keeps the bound.
LEMMA NextNotices == NoticesInv /\ IInv /\ [Next]_vars => NoticesInv'
<1> SUFFICES ASSUME NoticesInv, IInv, [Next]_vars PROVE NoticesInv'
  OBVIOUS
<1> USE DEF history, workers
<1>1. TypeInv /\ \A l \in Log : Progress(l)
  BY DEF IInv
<1>2. ASSUME NEW l \in Log, up, UNCHANGED <<up, saveCerts, notices, interruptions>>, notified \subseteq notified',
             \A m \in Log \ {l} : pos'[m] = pos[m] /\ wpc'[m] = wpc[m] /\ step'[m] = step[m],
             saveCerts => \A cert \in Watched : l \in Spent(cert) => l \in Spent(cert)'
      PROVE  NoticesInv'
  <2>1. \A cert \in Watched : \A m \in Spent(cert) \ {l} : m \in Spent(cert)'
    BY <1>2, OthersSpent DEF Spent
  <2>2. saveCerts => \A cert \in Watched : Spent(cert) \subseteq Spent(cert)'
    BY <1>2, <2>1
  <2> QED BY <1>2, <2>2, NothingAnnounced
<1>3. ASSUME NEW l \in Log, ProcessLogEntry(l) PROVE NoticesInv'
  <2>1. \A m \in Log \ {l} : pos'[m] = pos[m] /\ wpc'[m] = wpc[m] /\ step'[m] = step[m]
    BY <1>1, <1>3 DEF ProcessLogEntry, Goto, EntryDone, TypeInv
  <2>2. ASSUME NEW cert \in Watched, l \in Spent(cert) PROVE l \in Spent(cert)'
    <3>1. cert \in notified /\ up' /\ notified' = notified
      BY <1>3, <2>2 DEF ProcessLogEntry, Spent, HasAnnounced
    <3>2. ~WillAnnounce(l, cert)'
      BY <1>1, <1>3, NotifyAssumption DEF ProcessLogEntry, Goto, EntryDone, TypeInv, WillAnnounce, Current
    <3> QED BY <3>1, <3>2 DEF Spent
  <2> QED BY <1>2, <1>3, <2>1, <2>2 DEF ProcessLogEntry
<1>4. ASSUME NEW l \in Log, CheckNotified(l) PROVE NoticesInv'
  <2>1. \A m \in Log \ {l} : pos'[m] = pos[m] /\ wpc'[m] = wpc[m] /\ step'[m] = step[m]
    BY <1>1, <1>4 DEF CheckNotified, Goto, EntryDone, TypeInv
  <2>2. ASSUME saveCerts, NEW cert \in Watched, l \in Spent(cert) PROVE l \in Spent(cert)'
    <3>1. cert \in notified /\ up' /\ notified' = notified
      BY <1>4, <2>2 DEF CheckNotified, Spent, HasAnnounced
    <3>2. ~WillAnnounce(l, cert)'
      BY <1>1, <1>4, <2>2, <3>1 DEF CheckNotified, WasNotified, Goto, EntryDone, TypeInv, WillAnnounce, Current
    <3> QED BY <3>1, <3>2 DEF Spent
  <2> QED BY <1>2, <1>4, <2>1, <2>2 DEF CheckNotified
<1>5. ASSUME NEW l \in Log, WriteFile(l) PROVE NoticesInv'
  <2>1. \A m \in Log \ {l} : pos'[m] = pos[m] /\ wpc'[m] = wpc[m] /\ step'[m] = step[m]
    BY <1>1, <1>5 DEF WriteFile, Goto, TypeInv
  <2>2. pos'[l] = pos[l] /\ (wpc'[l] = "write" \/ (wpc'[l] = "notify" /\ step'[l] = 0))
    BY <1>1, <1>5 DEF WriteFile, Goto, TypeInv
  <2>3. \A cert \in Watched : l \in Spent(cert) => l \in Spent(cert)'
    BY <1>5, <2>2 DEF WriteFile, Spent, HasAnnounced, WillAnnounce, Current
  <2> QED BY <1>2, <1>5, <2>1, <2>3 DEF WriteFile
<1>6. ASSUME NEW l \in Log, Notify(l) PROVE NoticesInv'
  <2>1. CASE Current(l) \in Watched /\ step[l] = 0
    BY <1>6, <2>1, AnnouncingCounts
  <2>2. CASE ~(Current(l) \in Watched /\ step[l] = 0)
    <3>1. UNCHANGED notices
      BY <1>6, <2>2 DEF Notify, Announced
    <3>2. \A m \in Log \ {l} : pos'[m] = pos[m] /\ wpc'[m] = wpc[m] /\ step'[m] = step[m]
      BY <1>1, <1>6 DEF Notify, AfterNotify, Goto, EntryDone, TypeInv
    <3>3. ASSUME saveCerts, NEW cert \in Watched, l \in Spent(cert) PROVE l \in Spent(cert)'
      <4>1. up' /\ notified' = notified /\ wpc[l] = "notify" /\ step[l] \in Nat
        BY <1>1, <1>6 DEF Notify, TypeInv
      <4>2. CASE Current(l) \in Watched
        <5>1. pos'[l] = pos[l] /\ (wpc'[l] = "mark" \/ (wpc'[l] = "notify" /\ step'[l] = step[l] + 1))
          BY <1>1, <1>6, <3>3, <4>2 DEF Notify, AfterNotify, Goto, TypeInv
        <5>2. step[l] # 0
          BY <2>2, <4>2
        <5> QED BY <3>3, <4>1, <5>1, <5>2 DEF Spent, HasAnnounced, WillAnnounce, Current
      <4>3. CASE Current(l) \notin Watched
        <5>1. cert \in notified
          BY <3>3, <4>1, <4>3 DEF Spent, HasAnnounced
        <5>2. wpc'[l] = "next" \/ (pos'[l] = pos[l] /\ Current(l) # cert)
          BY <1>1, <1>6, <3>3, <4>3 DEF Notify, AfterNotify, EntryDone, TypeInv
        <5>3. ~WillAnnounce(l, cert)'
          BY <5>2 DEF WillAnnounce, Current
        <5> QED BY <4>1, <5>1, <5>3 DEF Spent
      <4> QED BY <4>2, <4>3
    <3> QED BY <1>2, <1>6, <3>1, <3>2, <3>3 DEF Notify
  <2> QED BY <2>1, <2>2
<1>7. ASSUME NEW l \in Log, MarkNotified(l) PROVE NoticesInv'
  <2>1. \A m \in Log \ {l} : pos'[m] = pos[m] /\ wpc'[m] = wpc[m] /\ step'[m] = step[m]
    BY <1>1, <1>7 DEF MarkNotified, EntryDone, TypeInv
  <2>2. wpc'[l] = "next" /\ up /\ up' /\ notified' = notified \cup {Current(l)} /\ wpc[l] = "mark"
    BY <1>1, <1>7 DEF MarkNotified, EntryDone, TypeInv
  <2>3. \A cert \in Watched : l \in Spent(cert) => l \in Spent(cert)'
    BY <2>2, DoneStaysSpent DEF HasAnnounced
  <2> QED BY <1>2, <1>7, <2>1, <2>2, <2>3 DEF MarkNotified
<1>8. ASSUME NEW l \in Log, StepFails(l) PROVE NoticesInv'
  <2>1. \A m \in Log \ {l} : pos'[m] = pos[m] /\ wpc'[m] = wpc[m] /\ step'[m] = step[m]
    BY <1>1, <1>8 DEF StepFails, Goto, TypeInv
  <2>2. wpc'[l] = "failed" /\ up'
    BY <1>1, <1>8 DEF StepFails, Goto, TypeInv
  <2>3. \A cert \in Watched : l \in Spent(cert)'
    BY <2>2 DEF Spent, HasAnnounced
  <2> QED BY <1>2, <1>8, <2>1, <2>3 DEF StepFails
<1>9. ASSUME NEW l \in Log, SavePosition(l) PROVE NoticesInv'
  BY <1>9, NothingAnnounced DEF SavePosition, Spent, HasAnnounced, WillAnnounce, Current
<1>10. CASE ProcessEnds
  <2>1. interruptions' = interruptions + 1 /\ UNCHANGED <<saveCerts, notices>> /\ ~up'
    BY <1>10 DEF ProcessEnds
  <2>2. ASSUME saveCerts, NEW cert \in Watched
        PROVE  notices[cert] <= Cardinality(Log) * (interruptions + 1) + Cardinality(Spent(cert)')
    <3>1. Cardinality(Log) * (interruptions + 1) = Cardinality(Log) * interruptions + Cardinality(Log)
      BY SpentFinite, OneMoreProcess DEF NoticesInv
    <3>2. notices[cert] \in Nat /\ Cardinality(Log) * interruptions \in Nat
      BY SpentFinite DEF NoticesInv
    <3> QED BY <2>2, <3>1, <3>2, SpentFinite, SpentFiniteAfter DEF NoticesInv
  <2> QED BY <2>1, <2>2 DEF NoticesInv
<1>11. CASE Restart
  BY <1>11, NothingAnnounced DEF Restart, Spent
<1>12. CASE UNCHANGED vars
  BY <1>12, NothingAnnounced DEF vars, Spent, HasAnnounced, WillAnnounce, Current
<1> QED BY <1>3, <1>4, <1>5, <1>6, <1>7, <1>8, <1>9, <1>10, <1>11, <1>12 DEF Next, WorkerStep

\* For any number of logs and interruptions, no certificate is announced more often
\* than once per log and process, although the goroutines of the logs check for
\* .notified and write it without a lock (NotifyCert).
THEOREM AnnouncementsAreBounded == Spec => []DuplicatesBounded
<1>1. Init => NoticesInv
  <2> SUFFICES ASSUME Init PROVE NoticesInv
    OBVIOUS
  <2>1. Cardinality(Log) * 0 = 0
    BY SpentFinite
  <2> QED BY <2>1, SpentFinite DEF Init, NoticesInv
<1>2. NoticesInv => DuplicatesBounded
  <2> SUFFICES ASSUME NoticesInv, saveCerts, NEW cert \in Watched
               PROVE  notices[cert] <= Cardinality(Log) * (interruptions + 1)
    BY DEF DuplicatesBounded
  <2>1. Cardinality(Log) * (interruptions + 1) = Cardinality(Log) * interruptions + Cardinality(Log)
    BY SpentFinite, OneMoreProcess DEF NoticesInv
  <2>2. notices[cert] \in Nat /\ Cardinality(Log) * interruptions \in Nat
    BY SpentFinite DEF NoticesInv
  <2> QED BY <2>1, <2>2, SpentFinite DEF NoticesInv
<1> QED BY AlwaysIInv, <1>1, <1>2, NextNotices, PTL DEF Spec
=============================================================================
