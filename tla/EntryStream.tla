----------------------------- MODULE EntryStream -----------------------------
(***************************************************************************)
(* What monitorLog relies on when it ranges over the channel entries       *)
(* (monitor/monitor.go:161-214): the entries of [Begin, End) come in order *)
(* and once each; the stream ends without an error only when all of them   *)
(* have come, with context.Canceled only when the context was cancelled,   *)
(* and with any other error only when some are missing.                    *)
(***************************************************************************)
EXTENDS Integers, Sequences

CONSTANTS Begin, End

VARIABLES received, ended, cancelled

evars == <<received, ended, cancelled>>

EInit == received = <<>> /\ ended = "no" /\ cancelled = FALSE

Deliver ==
  /\ ended = "no" /\ Len(received) < End - Begin
  /\ received' = Append(received, Begin + Len(received))
  /\ UNCHANGED <<ended, cancelled>>

EndOfStream ==
  /\ ended = "no"
  /\ \/ ended' = "nil" /\ Len(received) = End - Begin
     \/ ended' = "canceled" /\ cancelled
     \/ ended' = "error" /\ Len(received) < End - Begin
  /\ cancelled' = TRUE
  /\ UNCHANGED received

\* monitorLog returns from the middle of the loop.
Abandon ==
  /\ ended = "no"
  /\ ended' = "abandoned"
  /\ cancelled' = TRUE
  /\ UNCHANGED received

CancelStream == cancelled' = TRUE /\ UNCHANGED <<received, ended>>

ENext == Deliver \/ EndOfStream \/ Abandon \/ CancelStream

ESpec == EInit /\ [][ENext]_evars

=============================================================================
