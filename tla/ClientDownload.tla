--------------------------- MODULE ClientDownload ---------------------------
(***************************************************************************)
(* Download composed with LogClient: where Download takes GetRawEntries to *)
(* be one step, the goroutine here waits for a request that is sent up to  *)
(* MaxRetries + 1 times and sleeps in between.  ctx is the variable        *)
(* cancelled of both modules, so it may end while a request is in flight,  *)
(* while the client sleeps or while an entry waits for the channel.        *)
(***************************************************************************)
EXTENDS Download

CONSTANTS MaxRetries

ASSUME RetriesAssumption == MaxRetries \in Nat

VARIABLES call, handled

\* A body is the number of entries in it.
C == INSTANCE LogClient WITH Calls <- {"get-entries"}, Bodies <- 0..MaxGetEntriesSize + 1

clientVars == <<call, handled>>
composedVars == <<vars, clientVars>>

request == call["get-entries"]

ComposedInit == Init /\ C!ClientInit

CallGetRawEntries == Request /\ C!BeginCall("get-entries") /\ UNCHANGED handled

NewRequest == call' = [c \in {"get-entries"} |-> C!NoCall] /\ handled' = [c \in {"get-entries"} |-> FALSE]

RawEntriesReturned ==
  /\ request.result = "ok"
  /\ GetRawEntries /\ batch' = request.body
  /\ NewRequest

\* No entries, or more than were asked for.
RawEntriesRefused ==
  /\ request.result = "ok" /\ request.body \notin 1..RequestSize
  /\ Finish("error")
  /\ NewRequest

\* Mutant: after an error the loop goes on.
Mut_RequestFailedIgnored ==
  /\ request.result \in {"error", "canceled"}
  /\ ppc' = "loop"
  /\ UNCHANGED <<begin, batch, sent, entries, closed, downloadErr, consumerVars, cancelled>>
  /\ NewRequest

RequestFailed ==
  /\ request.result \in {"error", "canceled"}
  /\ GetRawEntriesFails /\ downloadErr' = request.result
  /\ NewRequest

DownloadSteps == LoopEnds \/ Send \/ SendCancelled \/ BatchSent \/ Close

ComposedProducer ==
  \/ CallGetRawEntries \/ RawEntriesReturned \/ RawEntriesRefused \/ RequestFailed
  \/ DownloadSteps /\ UNCHANGED clientVars

RequestSteps == (C!ClientStep("get-entries") \/ C!Answer("get-entries")) /\ UNCHANGED vars

ComposedNext ==
  \/ ComposedProducer
  \/ RequestSteps
  \/ C!LogHandles("get-entries") /\ UNCHANGED vars
  \/ (Consumer \/ Cancel \/ Terminated) /\ UNCHANGED clientVars

\* Goroutines are scheduled, timers fire, and the HTTP client's timeouts end an
\* attempt that the log leaves unanswered.
ComposedSpec ==
  /\ ComposedInit /\ [][ComposedNext]_composedVars
  /\ WF_composedVars(ComposedProducer) /\ WF_composedVars(RequestSteps)
  /\ WF_composedVars(Consumer /\ UNCHANGED clientVars)

-----------------------------------------------------------------------------
\* The composed system is a Download: a request that is retried, answered late
\* or cancelled looks like the one step GetRawEntries to the rest of monitorLog
\* (logclient.go:182-249, monitor.go:230).
ImplementsDownload == Spec
=============================================================================
