----------------------------- MODULE LogClient ------------------------------
(***************************************************************************)
(* Requests to a CT log (ct/client/logclient.go): doAndParse sends the     *)
(* request of a call, and sends it again as long as shouldRetry says so.   *)
(* A call here is one use of fetchAndParse or postAndParse; what its       *)
(* caller makes of the body of a 2xx response is up to the caller.  No     *)
(* caller sets a deadline, so that branch of shouldRetry is left out, and  *)
(* so are the lengths of the delays: a sleep ends.                         *)
(***************************************************************************)
EXTENDS Integers

CONSTANTS
  Calls,
  Bodies,       \* what a 2xx response that is JSON may contain
  MaxRetries    \* maxRetries, 10 in the code

VARIABLES
  call,         \* control state, numRetries, result and body of every call
  handled,      \* whether the log has carried out the request of a call
  cancelled     \* ctx is done

clientVars == <<call, handled, cancelled>>

NoCall == [pc |-> "idle", numRetries |-> 0, result |-> "none", body |-> "none"]

ClientInit ==
  /\ call = [c \in Calls |-> NoCall] /\ handled = [c \in Calls |-> FALSE] /\ cancelled = FALSE

Update(c, pc, result, body) ==
  call' = [call EXCEPT ![c].pc = pc, ![c].result = result, ![c].body = body]

\* The caller enters doAndParse with numRetries 0.
BeginCall(c) ==
  /\ call[c].pc = "idle"
  /\ call' = [call EXCEPT ![c] = [NoCall EXCEPT !.pc = "retry"]]

\* ctx.Err() at the label retry.
ReturnCancelled(c) ==
  /\ call[c].pc = "retry" /\ cancelled
  /\ Update(c, "done", "canceled", "none")
  /\ UNCHANGED <<handled, cancelled>>

Send(c) ==
  /\ call[c].pc = "retry" /\ ~cancelled
  /\ Update(c, "flight", "none", "none")
  /\ UNCHANGED <<handled, cancelled>>

\* The log carries out the request; the response may still get lost.
LogHandles(c) ==
  /\ call[c].pc = "flight" /\ ~handled[c]
  /\ handled' = [handled EXCEPT ![c] = TRUE]
  /\ UNCHANGED <<call, cancelled>>

\* A 2xx response that can be unmarshalled.
ReceiveBody(c) ==
  /\ call[c].pc = "flight" /\ handled[c]
  /\ \E b \in Bodies : Update(c, "done", "ok", b)
  /\ UNCHANGED <<handled, cancelled>>

ShouldRetry(c, retryable) == call[c].numRetries # MaxRetries /\ retryable

\* Do or ReadAll fails, because of the network, a timeout or ctx.
RequestFails(c) ==
  /\ call[c].pc = "flight"
  /\ IF ShouldRetry(c, TRUE) THEN Update(c, "sleep", "none", "none")
     ELSE \/ Update(c, "done", "error", "none")
          \/ cancelled /\ Update(c, "done", "canceled", "none")
  /\ UNCHANGED <<handled, cancelled>>

\* A status other than 2xx; 5xx and 429 are retryable.
ReceiveStatus(c, retryable) ==
  /\ call[c].pc = "flight"
  /\ IF ShouldRetry(c, retryable) THEN Update(c, "sleep", "none", "none")
     ELSE Update(c, "done", "error", "none")
  /\ UNCHANGED <<handled, cancelled>>

\* A 2xx response that cannot be unmarshalled is not tried again.
ReceiveGarbled(c) ==
  /\ call[c].pc = "flight" /\ handled[c]
  /\ Update(c, "done", "error", "none")
  /\ UNCHANGED <<handled, cancelled>>

\* Mutant: the attempt is not counted.
Mut_WakeUncounted(c) ==
  /\ call[c].pc = "sleep"
  /\ call' = [call EXCEPT ![c].pc = "retry"]
  /\ UNCHANGED <<handled, cancelled>>

\* The timer fires or ctx is done.
Wake(c) ==
  /\ call[c].pc = "sleep"
  /\ call' = [call EXCEPT ![c].pc = "retry", ![c].numRetries = @ + 1]
  /\ UNCHANGED <<handled, cancelled>>

\* What the client does by itself.
ClientStep(c) == ReturnCancelled(c) \/ Send(c) \/ Wake(c)

\* The log, the network or the client's timeouts end every attempt.
Answer(c) ==
  \/ ReceiveBody(c)
  \/ RequestFails(c)
  \/ \E retryable \in BOOLEAN : ReceiveStatus(c, retryable)
  \/ ReceiveGarbled(c)
=============================================================================
