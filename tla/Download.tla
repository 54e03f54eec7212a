------------------------------ MODULE Download ------------------------------
(***************************************************************************)
(* One download of monitorLog: the goroutine that runs downloadEntries,    *)
(* the buffered channel entries and the loop that receives from it         *)
(* (monitor/monitor.go:152-214, 224-247).  An entry is its index.  The two *)
(* sides share ctx, which the caller may cancel at any time and monitorLog *)
(* itself cancels when it returns, and downloadErr.                        *)
(***************************************************************************)
EXTENDS Integers, Sequences

CONSTANTS
  Begin, End,          \* downloadBegin, downloadEnd
  MaxGetEntriesSize    \* size of a request, capacity of the channel

ASSUME DownloadAssumption ==
  Begin \in Nat /\ End \in Nat /\ Begin <= End /\ MaxGetEntriesSize \in Nat \ {0}

VARIABLES
  ppc,          \* control state of downloadEntries
  begin,        \* its variable begin
  batch,        \* entries of the last response
  sent,         \* entries of that response already in the channel
  entries,      \* the channel's buffer
  closed,       \* the channel is closed
  downloadErr,
  cpc,          \* control state of the receiving loop
  received,     \* the entries it has received
  ended,        \* how the loop ended
  cancelled     \* ctx is done

producerVars == <<ppc, begin, batch, sent>>
consumerVars == <<cpc, received, ended>>
vars == <<producerVars, entries, closed, downloadErr, consumerVars, cancelled>>

Init ==
  /\ ppc = "loop" /\ begin = Begin /\ batch = 0 /\ sent = 0
  /\ entries = <<>> /\ closed = FALSE /\ downloadErr = "nil"
  /\ cpc = "receive" /\ received = <<>> /\ ended = "no"
  /\ cancelled = FALSE

-----------------------------------------------------------------------------
(* downloadEntries. *)

RequestSize == IF End - begin > MaxGetEntriesSize THEN MaxGetEntriesSize ELSE End - begin

CtxErr == IF cancelled THEN "canceled" ELSE "nil"

\* The goroutine returns err; the deferred close follows.
Finish(err) ==
  /\ ppc' = "close" /\ downloadErr' = err
  /\ UNCHANGED <<begin, batch, sent, entries, closed, consumerVars, cancelled>>

\* The loop goes on, and calls GetRawEntries.
Request ==
  /\ ppc = "loop" /\ begin < End /\ ~cancelled
  /\ ppc' = "request"
  /\ UNCHANGED <<begin, batch, sent, entries, closed, downloadErr, consumerVars, cancelled>>

\* Mutant: an empty response is not an error.
Mut_GetRawEntriesEmpty ==
  /\ ppc = "request"
  /\ batch' \in 0..RequestSize
  /\ sent' = 0
  /\ ppc' = "send"
  /\ UNCHANGED <<begin, entries, closed, downloadErr, consumerVars, cancelled>>

\* GetRawEntries returns at least one entry and no more than were asked for.
GetRawEntries ==
  /\ ppc = "request"
  /\ batch' \in 1..RequestSize
  /\ sent' = 0
  /\ ppc' = "send"
  /\ UNCHANGED <<begin, entries, closed, downloadErr, consumerVars, cancelled>>

GetRawEntriesFails ==
  /\ ppc = "request"
  /\ \/ Finish("error")
     \/ cancelled /\ Finish("canceled")

LoopEnds == ppc = "loop" /\ (begin >= End \/ cancelled) /\ Finish(CtxErr)

\* Mutant: the first entry of the response is sent each time.
Mut_SendFromBegin ==
  /\ ppc = "send" /\ sent < batch
  /\ Len(entries) < MaxGetEntriesSize
  /\ entries' = Append(entries, begin)
  /\ sent' = sent + 1
  /\ UNCHANGED <<ppc, begin, batch, closed, downloadErr, consumerVars, cancelled>>

Send ==
  /\ ppc = "send" /\ sent < batch
  /\ Len(entries) < MaxGetEntriesSize
  /\ entries' = Append(entries, begin + sent)
  /\ sent' = sent + 1
  /\ UNCHANGED <<ppc, begin, batch, closed, downloadErr, consumerVars, cancelled>>

\* Mutant: ctx is looked at between two sends, but not while a send blocks.
Mut_SendIgnoresCancel ==
  /\ ppc = "send" /\ sent < batch /\ cancelled
  /\ Len(entries) < MaxGetEntriesSize
  /\ Finish("canceled")

SendCancelled == ppc = "send" /\ sent < batch /\ cancelled /\ Finish("canceled")

\* Mutant: begin advances by the size asked for, not by the size returned.
Mut_BatchSentSkips ==
  /\ ppc = "send" /\ sent = batch
  /\ begin' = begin + RequestSize
  /\ ppc' = "loop" /\ batch' = 0 /\ sent' = 0
  /\ UNCHANGED <<entries, closed, downloadErr, consumerVars, cancelled>>

BatchSent ==
  /\ ppc = "send" /\ sent = batch
  /\ begin' = begin + batch
  /\ ppc' = "loop" /\ batch' = 0 /\ sent' = 0
  /\ UNCHANGED <<entries, closed, downloadErr, consumerVars, cancelled>>

Close ==
  /\ ppc = "close"
  /\ closed' = TRUE /\ ppc' = "done"
  /\ UNCHANGED <<begin, batch, sent, entries, downloadErr, consumerVars, cancelled>>

-----------------------------------------------------------------------------
(* The receiving loop of monitorLog. *)

Receive ==
  /\ cpc = "receive" /\ entries # <<>>
  /\ received' = Append(received, Head(entries))
  /\ entries' = Tail(entries)
  /\ cpc' = "process"
  /\ UNCHANGED <<producerVars, closed, downloadErr, ended, cancelled>>

Processed ==
  /\ cpc = "process"
  /\ cpc' = "receive"
  /\ UNCHANGED <<producerVars, entries, closed, downloadErr, received, ended, cancelled>>

\* Processing, saving or verifying ended the round: monitorLog returns, and its
\* deferred cancel runs.
ReturnFromLoop ==
  /\ cpc = "process"
  /\ cpc' = "returned" /\ ended' = "abandoned" /\ cancelled' = TRUE
  /\ UNCHANGED <<producerVars, entries, closed, downloadErr, received>>

\* The channel is closed and drained; downloadErr is read and monitorLog returns.
ChannelClosed ==
  /\ cpc = "receive" /\ entries = <<>> /\ closed
  /\ cpc' = "returned" /\ ended' = downloadErr /\ cancelled' = TRUE
  /\ UNCHANGED <<producerVars, entries, closed, downloadErr, received>>

Cancel ==
  /\ ~cancelled /\ cancelled' = TRUE
  /\ UNCHANGED <<producerVars, entries, closed, downloadErr, consumerVars>>

\* Both goroutines have ended.
Terminated == ppc = "done" /\ cpc = "returned" /\ UNCHANGED vars

Producer ==
  \/ Request \/ GetRawEntries \/ GetRawEntriesFails \/ LoopEnds
  \/ Send \/ SendCancelled \/ BatchSent \/ Close

Consumer == Receive \/ Processed \/ ReturnFromLoop \/ ChannelClosed

Next == Producer \/ Consumer \/ Cancel \/ Terminated

Spec == Init /\ [][Next]_vars

\* Requests end (timeouts, bounded retries) and goroutines are scheduled.
FairSpec == Spec /\ WF_vars(Producer) /\ WF_vars(Consumer)

-----------------------------------------------------------------------------
\* Type invariant; the channel never exceeds its capacity.
TypeOK ==
  /\ ppc \in {"loop", "request", "send", "close", "done"}
  /\ begin \in Nat /\ batch \in Nat /\ sent \in Nat
  /\ entries \in Seq(Nat) /\ Len(entries) <= MaxGetEntriesSize
  /\ closed \in BOOLEAN /\ cancelled \in BOOLEAN
  /\ downloadErr \in {"nil", "error", "canceled"}
  /\ cpc \in {"receive", "process", "returned"}
  /\ received \in Seq(Nat)
  /\ ended \in {"no", "nil", "error", "canceled", "abandoned"}

\* What is left in the channel continues what was received, and the next entry
\* to be sent continues both.
InOrder ==
  /\ \A i \in 1..Len(received) : received[i] = Begin + i - 1
  /\ \A i \in 1..Len(entries) : entries[i] = Begin + Len(received) + i - 1
  /\ begin + sent = Begin + Len(received) + Len(entries)
  /\ sent <= batch /\ begin + batch <= End
  /\ ppc \in {"loop", "request"} => sent = 0 /\ batch = 0
  /\ ppc = "request" => begin < End

\* downloadErr tells the truth about what was sent, before the channel closes.
Outcome ==
  /\ closed => ppc = "done"
  /\ cpc # "returned" => ended = "no"
  /\ ppc \in {"close", "done"} =>
       /\ downloadErr = "nil" => begin + sent = End
       /\ downloadErr = "error" => begin + sent < End
       /\ downloadErr = "canceled" => cancelled

\* No entry is lost, repeated or reordered on its way through the channel, and
\* the error that is read after the channel closed fits the entries that came
\* (monitor.go:165, 209-214, 234-246).
InFlight == InOrder /\ Outcome

\* The goroutine, the channel and the loop together are an EntryStream.
S == INSTANCE EntryStream

ImplementsEntryStream == S!ESpec

\* No goroutine is left behind: once monitorLog has returned, downloadEntries
\* returns too, even if the channel is full and nobody receives
\* (monitor.go:70-71, 238-242).
NoGoroutineLeak == cpc = "returned" ~> ppc = "done"

\* A download always ends, whatever the log answers (monitor.go:225-245).
DownloadEnds == <>(cpc = "returned" /\ ppc = "done")

=============================================================================
