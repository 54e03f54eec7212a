--------------------------- MODULE DownloadProofs ---------------------------
(***************************************************************************)
(* For every range of entries and every channel capacity: the channel is   *)
(* never over its capacity, no entry is lost, repeated or reordered        *)
(* between the goroutine and the loop, and the two are an EntryStream.     *)
(* The goroutine whose requests are retried by the client is such a        *)
(* download, whatever the number of retries.                               *)
(***************************************************************************)
EXTENDS ClientDownload, TLAPS

\* What a received entry does to the two sequences it moves between.
LEMMA ReceiveMoves ==
  ASSUME NEW r \in Seq(Nat), NEW e \in Seq(Nat), e # <<>>
  PROVE  /\ Append(r, Head(e)) \in Seq(Nat) /\ Tail(e) \in Seq(Nat)
         /\ Len(Append(r, Head(e))) = Len(r) + 1
         /\ Len(Tail(e)) = Len(e) - 1 /\ Len(e) > 0
         /\ \A i \in 1..Len(r) : Append(r, Head(e))[i] = r[i]
         /\ Append(r, Head(e))[Len(r) + 1] = e[1]
         /\ \A i \in 1..(Len(e) - 1) : Tail(e)[i] = e[i + 1]
  OBVIOUS

\* The initial state has the right types and nothing in flight.
LEMMA InitInFlight == Init => TypeOK /\ InFlight
<1> SUFFICES ASSUME Init PROVE TypeOK /\ InFlight
  OBVIOUS
<1>1. <<>> \in Seq(Nat) /\ Len(<<>>) = 0
  OBVIOUS
<1>2. TypeOK
  <2>1. /\ begin \in Nat /\ batch \in Nat /\ sent \in Nat
        /\ entries \in Seq(Nat) /\ Len(entries) <= MaxGetEntriesSize /\ received \in Seq(Nat)
    BY <1>1, DownloadAssumption DEF Init
  <2>2. closed \in BOOLEAN /\ cancelled \in BOOLEAN
    BY DEF Init
  <2>3. QED
    BY <2>1, <2>2, Zenon DEF Init, TypeOK
<1>3. InOrder
  BY <1>1, DownloadAssumption DEF Init, InOrder
<1>4. Outcome
  BY DEF Init, Outcome
<1>5. QED
  BY <1>2, <1>3, <1>4 DEF InFlight

\* Every step keeps the types and the capacity of the channel.
LEMMA NextType == TypeOK /\ InOrder /\ [Next]_vars => TypeOK'
<1> SUFFICES ASSUME TypeOK, InOrder, [Next]_vars PROVE TypeOK'
  OBVIOUS
<1> USE DownloadAssumption
<1>1. CASE GetRawEntries
  BY <1>1 DEF GetRawEntries, RequestSize, consumerVars, TypeOK, InOrder
<1>2. CASE GetRawEntriesFails
  BY <1>2 DEF GetRawEntriesFails, Finish, consumerVars, TypeOK, InOrder
<1>3. CASE LoopEnds
  BY <1>3 DEF LoopEnds, Finish, CtxErr, consumerVars, TypeOK, InOrder
<1>4. CASE Send
  BY <1>4 DEF Send, consumerVars, TypeOK, InOrder
<1>5. CASE SendCancelled
  BY <1>5 DEF SendCancelled, Finish, consumerVars, TypeOK, InOrder
<1>6. CASE BatchSent
  BY <1>6 DEF BatchSent, consumerVars, TypeOK, InOrder
<1>7. CASE Close
  BY <1>7 DEF Close, consumerVars, TypeOK, InOrder
<1>8. CASE Receive
  BY <1>8, ReceiveMoves DEF Receive, producerVars, TypeOK, InOrder
<1>9. CASE Processed
  BY <1>9 DEF Processed, producerVars, TypeOK, InOrder
<1>10. CASE ReturnFromLoop
  BY <1>10 DEF ReturnFromLoop, producerVars, TypeOK, InOrder
<1>11. CASE ChannelClosed
  BY <1>11 DEF ChannelClosed, producerVars, TypeOK, InOrder
<1>12. CASE Cancel
  BY <1>12 DEF Cancel, producerVars, consumerVars, TypeOK, InOrder
<1>13. CASE Terminated \/ UNCHANGED vars
  BY <1>13 DEF Terminated, vars, producerVars, consumerVars, TypeOK, InOrder
<1>14. CASE Request
  BY <1>14 DEF Request, consumerVars, TypeOK, InOrder
<1>15. QED
  BY <1>1, <1>2, <1>3, <1>4, <1>5, <1>6, <1>7, <1>8, <1>9, <1>10, <1>11, <1>12, <1>13, <1>14
     DEF Next, Producer, Consumer

\* Every step keeps the order of what is in flight.
LEMMA NextInOrder == TypeOK /\ InOrder /\ [Next]_vars => InOrder'
<1> SUFFICES ASSUME TypeOK, InOrder, [Next]_vars PROVE InOrder'
  OBVIOUS
<1> USE DownloadAssumption
<1>1. CASE GetRawEntries
  BY <1>1 DEF GetRawEntries, RequestSize, consumerVars, TypeOK, InOrder
<1>2. CASE GetRawEntriesFails
  BY <1>2 DEF GetRawEntriesFails, Finish, consumerVars, TypeOK, InOrder
<1>3. CASE LoopEnds
  BY <1>3 DEF LoopEnds, Finish, CtxErr, consumerVars, TypeOK, InOrder
<1>4. CASE Send
  BY <1>4 DEF Send, consumerVars, TypeOK, InOrder
<1>5. CASE SendCancelled
  BY <1>5 DEF SendCancelled, Finish, consumerVars, TypeOK, InOrder
<1>6. CASE BatchSent
  BY <1>6 DEF BatchSent, consumerVars, TypeOK, InOrder
<1>7. CASE Close
  BY <1>7 DEF Close, consumerVars, TypeOK, InOrder
<1>8. CASE Receive
  <2> DEFINE r == Append(received, Head(entries))
             e == Tail(entries)
  <2>1. received' = r /\ entries' = e /\ begin' = begin /\ sent' = sent /\ batch' = batch /\ ppc' = ppc
    BY <1>8 DEF Receive, producerVars
  <2>2. /\ received \in Seq(Nat) /\ entries \in Seq(Nat) /\ entries # <<>>
        /\ begin \in Nat /\ sent \in Nat
    BY <1>8 DEF Receive, TypeOK
  <2>3. /\ Len(r) = Len(received) + 1 /\ Len(e) = Len(entries) - 1 /\ Len(entries) > 0
        /\ \A i \in 1..Len(received) : r[i] = received[i]
        /\ r[Len(received) + 1] = entries[1]
        /\ \A i \in 1..(Len(entries) - 1) : e[i] = entries[i + 1]
    BY <2>2, ReceiveMoves
  <2>4. Len(received) \in Nat /\ Len(entries) \in Nat
    BY <2>2
  <2> HIDE DEF r, e
  <2>5. \A i \in 1..Len(r) : r[i] = Begin + i - 1
    <3>1. entries[1] = Begin + Len(received)
      BY <2>3, <2>4 DEF InOrder
    <3> SUFFICES ASSUME NEW i \in 1..(Len(received) + 1) PROVE r[i] = Begin + i - 1
      BY <2>3
    <3>2. CASE i \in 1..Len(received)
      BY <3>2, <2>3 DEF InOrder
    <3>3. CASE i = Len(received) + 1
      BY <3>1, <3>3, <2>3, <2>4
    <3>4. QED
      BY <3>2, <3>3, <2>4
  <2>6. \A i \in 1..Len(e) : e[i] = Begin + Len(r) + i - 1
    BY <2>3, <2>4 DEF InOrder
  <2>7. begin + sent = Begin + Len(r) + Len(e)
    <3>1. begin + sent = Begin + Len(received) + Len(entries)
      BY DEF InOrder
    <3>2. QED
      BY <3>1, <2>2, <2>3, <2>4
  <2>8. QED
    BY <2>1, <2>5, <2>6, <2>7 DEF InOrder
<1>9. CASE Processed
  BY <1>9 DEF Processed, producerVars, TypeOK, InOrder
<1>10. CASE ReturnFromLoop
  BY <1>10 DEF ReturnFromLoop, producerVars, TypeOK, InOrder
<1>11. CASE ChannelClosed
  BY <1>11 DEF ChannelClosed, producerVars, TypeOK, InOrder
<1>12. CASE Cancel
  BY <1>12 DEF Cancel, producerVars, consumerVars, TypeOK, InOrder
<1>13. CASE Terminated \/ UNCHANGED vars
  BY <1>13 DEF Terminated, vars, producerVars, consumerVars, TypeOK, InOrder
<1>14. CASE Request
  BY <1>14 DEF Request, consumerVars, TypeOK, InOrder
<1>15. QED
  BY <1>1, <1>2, <1>3, <1>4, <1>5, <1>6, <1>7, <1>8, <1>9, <1>10, <1>11, <1>12, <1>13, <1>14
     DEF Next, Producer, Consumer

\* Every step keeps downloadErr truthful.
LEMMA NextOutcome == TypeOK /\ InOrder /\ Outcome /\ [Next]_vars => Outcome'
<1> SUFFICES ASSUME TypeOK, InOrder, Outcome, [Next]_vars PROVE Outcome'
  OBVIOUS
<1> USE DownloadAssumption
<1>1. CASE GetRawEntries
  BY <1>1 DEF GetRawEntries, RequestSize, consumerVars, TypeOK, InOrder, Outcome
<1>2. CASE GetRawEntriesFails
  BY <1>2 DEF GetRawEntriesFails, Finish, consumerVars, TypeOK, InOrder, Outcome
<1>3. CASE LoopEnds
  BY <1>3 DEF LoopEnds, Finish, CtxErr, consumerVars, TypeOK, InOrder, Outcome
<1>4. CASE Send
  BY <1>4 DEF Send, consumerVars, TypeOK, InOrder, Outcome
<1>5. CASE SendCancelled
  BY <1>5 DEF SendCancelled, Finish, consumerVars, TypeOK, InOrder, Outcome
<1>6. CASE BatchSent
  BY <1>6 DEF BatchSent, consumerVars, TypeOK, InOrder, Outcome
<1>7. CASE Close
  BY <1>7 DEF Close, consumerVars, TypeOK, InOrder, Outcome
<1>8. CASE Receive
  BY <1>8, ReceiveMoves DEF Receive, producerVars, TypeOK, InOrder, Outcome
<1>9. CASE Processed
  BY <1>9 DEF Processed, producerVars, TypeOK, InOrder, Outcome
<1>10. CASE ReturnFromLoop
  BY <1>10 DEF ReturnFromLoop, producerVars, TypeOK, InOrder, Outcome
<1>11. CASE ChannelClosed
  BY <1>11 DEF ChannelClosed, producerVars, TypeOK, InOrder, Outcome
<1>12. CASE Cancel
  BY <1>12 DEF Cancel, producerVars, consumerVars, TypeOK, InOrder, Outcome
<1>13. CASE Terminated \/ UNCHANGED vars
  <2>1. UNCHANGED vars
    BY <1>13 DEF Terminated
  <2>2. QED
    BY <2>1, Zenon DEF vars, producerVars, consumerVars, Outcome
<1>14. CASE Request
  BY <1>14 DEF Request, consumerVars, TypeOK, InOrder, Outcome
<1>15. QED
  BY <1>1, <1>2, <1>3, <1>4, <1>5, <1>6, <1>7, <1>8, <1>9, <1>10, <1>11, <1>12, <1>13, <1>14
     DEF Next, Producer, Consumer

\* No entry is lost, repeated or reordered between downloadEntries and the loop
\* of monitorLog, and the channel stays within its capacity.
THEOREM NothingLostInFlight == Spec => [](TypeOK /\ InFlight)
<1>1. TypeOK /\ InFlight /\ [Next]_vars => TypeOK' /\ InFlight'
  BY NextType, NextInOrder, NextOutcome DEF InFlight
<1>2. QED
  BY <1>1, InitInFlight, PTL DEF Spec

\* The invariant again, as the type invariant alone.
THEOREM DownloadTypeCorrect == Spec => []TypeOK
  BY NothingLostInFlight, PTL

\* Every step of a download is a step of the EntryStream or leaves it alone.
LEMMA NextStream == TypeOK /\ InFlight /\ [Next]_vars => [S!ENext]_S!evars
<1> SUFFICES ASSUME TypeOK, InFlight, [Next]_vars PROVE [S!ENext]_S!evars
  OBVIOUS
<1> USE DownloadAssumption
<1>1. CASE Producer \/ Processed \/ Terminated \/ UNCHANGED vars
  BY <1>1 DEF Producer, Request, GetRawEntries, GetRawEntriesFails, LoopEnds, Send, SendCancelled,
     BatchSent, Close, Finish, Processed, Terminated, vars, consumerVars, S!evars
<1>2. CASE Receive
  <2>1. Head(entries) = Begin + Len(received) /\ Len(received) < End - Begin
    BY <1>2 DEF Receive, TypeOK, InFlight, InOrder, Outcome
  <2>2. ended = "no"
    BY <1>2 DEF Receive, InFlight, Outcome
  <2>3. S!Deliver
    BY <1>2, <2>1, <2>2 DEF Receive, S!Deliver
  <2>4. QED
    BY <2>3 DEF S!ENext
<1>3. CASE ReturnFromLoop
  <2>1. S!Abandon
    BY <1>3 DEF ReturnFromLoop, InFlight, Outcome, S!Abandon
  <2>2. QED
    BY <2>1 DEF S!ENext
<1>4. CASE ChannelClosed
  <2>1. begin + sent = Begin + Len(received) /\ ended = "no" /\ ppc = "done"
    BY <1>4 DEF ChannelClosed, TypeOK, InFlight, InOrder, Outcome
  <2>2. ended' = downloadErr /\ cancelled' = TRUE /\ received' = received
    BY <1>4 DEF ChannelClosed
  <2>3. CASE downloadErr = "nil"
    <3>1. Len(received) = End - Begin
      BY <2>1, <2>3 DEF TypeOK, InFlight, Outcome
    <3>2. QED
      BY <2>1, <2>2, <2>3, <3>1 DEF S!EndOfStream, S!ENext
  <2>4. CASE downloadErr = "error"
    <3>1. Len(received) < End - Begin
      BY <2>1, <2>4 DEF TypeOK, InFlight, Outcome
    <3>2. QED
      BY <2>1, <2>2, <2>4, <3>1 DEF S!EndOfStream, S!ENext
  <2>5. CASE downloadErr = "canceled"
    <3>1. cancelled
      BY <2>1, <2>5 DEF InFlight, Outcome
    <3>2. QED
      BY <2>1, <2>2, <2>5, <3>1 DEF S!EndOfStream, S!ENext
  <2>6. QED
    BY <2>3, <2>4, <2>5 DEF TypeOK
<1>5. CASE Cancel
  BY <1>5 DEF Cancel, consumerVars, S!ENext, S!CancelStream
<1>6. QED
  BY <1>1, <1>2, <1>3, <1>4, <1>5 DEF Next, Consumer

\* The goroutine, the channel and the loop implement the EntryStream that the
\* monitor's model relies on.
THEOREM DownloadImplementsStream == Spec => ImplementsEntryStream
<1>1. Init => S!EInit
  BY DEF Init, S!EInit
<1>2. QED
  BY <1>1, NextStream, NothingLostInFlight, PTL DEF Spec, ImplementsEntryStream, S!ESpec

-----------------------------------------------------------------------------
(* The requests of the goroutine. *)

CallState ==
  [pc : {"idle", "retry", "flight", "sleep", "done"}, numRetries : Nat,
   result : {"none", "ok", "error", "canceled"}, body : {"none"} \cup (0..MaxGetEntriesSize + 1)]

\* A request is under way exactly while the goroutine waits for one, it has a result
\* only when it is done, and numRetries does not run past its limit.
RequestInv ==
  /\ call \in [{"get-entries"} -> CallState]
  /\ request.pc = "idle" <=> ppc # "request"
  /\ request.pc # "done" => request.result = "none"
  /\ request.numRetries <= MaxRetries
  /\ request.pc = "sleep" => request.numRetries < MaxRetries

\* What Update does, and leaves alone.
LEMMA UpdateEffect ==
  ASSUME RequestInv, NEW p \in {"retry", "flight", "sleep", "done"},
         NEW x \in {"none", "ok", "error", "canceled"},
         NEW b \in {"none"} \cup (0..MaxGetEntriesSize + 1),
         C!Update("get-entries", p, x, b)
  PROVE  /\ call' \in [{"get-entries"} -> CallState]
         /\ request'.pc = p /\ request'.result = x /\ request'.numRetries = request.numRetries
<1> DEFINE r == [request EXCEPT !.pc = p, !.result = x, !.body = b]
<1>1. call \in [{"get-entries"} -> CallState] /\ request \in CallState
  BY DEF RequestInv, request
<1>2. r \in CallState /\ r.pc = p /\ r.result = x /\ r.numRetries = request.numRetries
  BY <1>1 DEF CallState
<1>3. call' = [call EXCEPT !["get-entries"] = r]
  BY <1>1 DEF C!Update, CallState, request
<1> HIDE DEF r
<1> QED BY <1>1, <1>2, <1>3 DEF request

\* A step of the client while the goroutine waits: the request goes on, it does not
\* vanish, and it sleeps only if it may be sent again (shouldRetry).
LEMMA RequestStepKeeps ==
  ASSUME RequestInv, UNCHANGED ppc, C!ClientStep("get-entries") \/ C!Answer("get-entries")
  PROVE  RequestInv'
<1>0. /\ call \in [{"get-entries"} -> CallState] /\ request \in CallState /\ request = call["get-entries"]
      /\ request.numRetries \in Nat /\ MaxRetries \in Nat
  BY RetriesAssumption DEF RequestInv, request, CallState
<1>1. CASE C!Wake("get-entries")
  <2>1. PICK k \in Nat : k = request.numRetries + 1
    BY <1>0
  <2> DEFINE r == [request EXCEPT !.pc = "retry", !.numRetries = k]
  <2>2. r \in CallState /\ r.pc = "retry" /\ r.result = request.result /\ r.numRetries = k
    BY <1>0 DEF CallState
  <2>3. call' = [call EXCEPT !["get-entries"] = r] /\ request.pc = "sleep"
    BY <1>0, <1>1, <2>1 DEF C!Wake, CallState
  <2> HIDE DEF r
  <2>4. request' = r /\ call' \in [{"get-entries"} -> CallState]
    BY <1>0, <2>2, <2>3 DEF request
  <2>5. k <= MaxRetries /\ ppc = "request" /\ request.result = "none"
    BY <1>0, <2>1, <2>3 DEF RequestInv
  <2> QED BY <2>2, <2>4, <2>5 DEF RequestInv
<1>2. CASE ~C!Wake("get-entries")
  <2>1. /\ request.pc \in {"retry", "flight"}
        /\ \E p \in {"retry", "flight", "sleep", "done"}, x \in {"none", "ok", "error", "canceled"},
              b \in {"none"} \cup (0..MaxGetEntriesSize + 1) :
             /\ C!Update("get-entries", p, x, b)
             /\ p # "done" => x = "none"
             /\ p = "sleep" => request.numRetries # MaxRetries
    BY <1>0, <1>2 DEF C!ClientStep, C!Answer, C!ReturnCancelled, C!Send, C!ReceiveBody,
         C!RequestFails, C!ReceiveStatus, C!ReceiveGarbled, C!ShouldRetry
  <2>2. PICK p \in {"retry", "flight", "sleep", "done"}, x \in {"none", "ok", "error", "canceled"},
              b \in {"none"} \cup (0..MaxGetEntriesSize + 1) :
             /\ C!Update("get-entries", p, x, b)
             /\ p # "done" => x = "none"
             /\ p = "sleep" => request.numRetries # MaxRetries
    BY <2>1
  <2>3. /\ call' \in [{"get-entries"} -> CallState]
        /\ request'.pc = p /\ request'.result = x /\ request'.numRetries = request.numRetries
    BY <2>2, UpdateEffect
  <2> QED BY <1>0, <2>1, <2>2, <2>3 DEF RequestInv
<1> QED BY <1>1, <1>2

\* Every step of the composed system keeps the request and the goroutine in step.
LEMMA RequestInvKept == RequestInv /\ [ComposedNext]_composedVars => RequestInv'
<1> SUFFICES ASSUME RequestInv, [ComposedNext]_composedVars PROVE RequestInv'
  OBVIOUS
<1>1. CASE CallGetRawEntries
  <2> DEFINE r == [C!NoCall EXCEPT !.pc = "retry"]
  <2>1. r \in CallState /\ r.pc = "retry" /\ r.result = "none" /\ r.numRetries = 0
    BY DEF C!NoCall, CallState
  <2>2. call' = [call EXCEPT !["get-entries"] = r] /\ ppc' = "request"
    BY <1>1 DEF CallGetRawEntries, C!BeginCall, Request
  <2> HIDE DEF r
  <2>3. request' = r /\ call' \in [{"get-entries"} -> CallState]
    BY <2>1, <2>2 DEF request, RequestInv
  <2> QED BY <2>1, <2>2, <2>3, RetriesAssumption DEF RequestInv
<1>2. CASE RawEntriesReturned \/ RawEntriesRefused \/ RequestFailed
  <2>1. ppc' \in {"send", "close"} /\ NewRequest
    BY <1>2 DEF RawEntriesReturned, RawEntriesRefused, RequestFailed, GetRawEntries,
         GetRawEntriesFails, Finish
  <2>2. call' \in [{"get-entries"} -> CallState] /\ request' = C!NoCall
    BY <2>1 DEF NewRequest, C!NoCall, CallState, request
  <2>3. C!NoCall.pc = "idle" /\ C!NoCall.result = "none" /\ C!NoCall.numRetries = 0
    BY DEF C!NoCall
  <2> QED BY <2>1, <2>2, <2>3, RetriesAssumption DEF RequestInv
<1>3. CASE RequestSteps
  BY <1>3, RequestStepKeeps DEF RequestSteps, vars, producerVars
<1>4. CASE \/ DownloadSteps /\ UNCHANGED clientVars
           \/ C!LogHandles("get-entries") /\ UNCHANGED vars
           \/ (Consumer \/ Cancel \/ Terminated) /\ UNCHANGED clientVars
           \/ UNCHANGED composedVars
  <2>1. call' = call /\ (ppc' # "request" <=> ppc # "request")
    BY <1>4 DEF DownloadSteps, LoopEnds, Send, SendCancelled, BatchSent, Close, Finish, C!LogHandles,
         Consumer, Receive, Processed, ReturnFromLoop, ChannelClosed, Cancel, Terminated,
         clientVars, composedVars, vars, producerVars
  <2> QED BY <2>1 DEF RequestInv, request
<1> QED BY <1>1, <1>2, <1>3, <1>4 DEF ComposedNext, ComposedProducer

\* The inductive invariant of the composed system holds throughout.
LEMMA RequestInvariant == ComposedSpec => []RequestInv
<1>1. ComposedInit => RequestInv
  <2> SUFFICES ASSUME ComposedInit PROVE RequestInv
    OBVIOUS
  <2>1. call = [c \in {"get-entries"} |-> C!NoCall] /\ ppc = "loop"
    BY DEF ComposedInit, C!ClientInit, Init
  <2>2. C!NoCall \in CallState /\ C!NoCall.pc = "idle" /\ C!NoCall.result = "none" /\ C!NoCall.numRetries = 0
    BY DEF C!NoCall, CallState
  <2> QED BY <2>1, <2>2, RetriesAssumption DEF RequestInv, request
<1> QED BY <1>1, RequestInvKept, PTL DEF ComposedSpec

\* A request is sent again at most MaxRetries times, so that no log keeps a download
\* waiting for ever by failing (shouldRetry, logclient.go:223-249).
THEOREM RetriesAreBounded == ComposedSpec => [](request.numRetries <= MaxRetries)
<1>1. RequestInv => request.numRetries <= MaxRetries
  BY DEF RequestInv
<1> QED BY <1>1, RequestInvariant, PTL

\* Every step of the composed system is a step of Download or leaves it alone.
LEMMA ComposedStep == RequestInv /\ [ComposedNext]_composedVars => [Next]_vars
<1> SUFFICES ASSUME RequestInv, [ComposedNext]_composedVars PROVE [Next]_vars
  OBVIOUS
<1>1. CASE CallGetRawEntries \/ RawEntriesReturned \/ RequestFailed \/ DownloadSteps
  BY <1>1 DEF CallGetRawEntries, RawEntriesReturned, RequestFailed, DownloadSteps, Next, Producer
<1>2. CASE RawEntriesRefused
  <2>1. ppc = "request" /\ Finish("error")
    BY <1>2 DEF RawEntriesRefused, RequestInv
  <2> QED BY <2>1 DEF GetRawEntriesFails, Next, Producer
<1>3. CASE Consumer \/ Cancel \/ Terminated
  BY <1>3 DEF Next
<1>4. CASE UNCHANGED vars \/ UNCHANGED composedVars
  BY <1>4 DEF composedVars
<1> QED BY <1>1, <1>2, <1>3, <1>4 DEF ComposedNext, ComposedProducer, RequestSteps

\* Retries, late answers and cancellation inside the client look like the one step
\* GetRawEntries to the rest of monitorLog (ImplementsDownload).
THEOREM ClientImplementsDownload == ComposedSpec => ImplementsDownload
<1>1. ComposedInit => Init
  BY DEF ComposedInit
<1> QED BY <1>1, ComposedStep, RequestInvariant, PTL DEF ComposedSpec, Spec, ImplementsDownload

\* So the composed system loses no entry either, and is an EntryStream.
THEOREM ComposedLosesNothing == ComposedSpec => []InFlight /\ ImplementsEntryStream
  BY ClientImplementsDownload, NothingLostInFlight, DownloadImplementsStream, PTL DEF ImplementsDownload

=============================================================================
