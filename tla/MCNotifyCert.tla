---------------------------- MODULE MCNotifyCert ----------------------------
(* NotifyCert with two logs that share a certificate, for TLC. *)
EXTENDS NotifyCert, TLC

CONSTANTS l1, l2, c, old, bad

TwoLogs == {l1, l2}

\* One log has the shared certificate twice and one that an old version knew,
\* the other has it once, between an entry of no interest and a malformed one.
SharedEntries == (l1 :> <<c, old, c>>) @@ (l2 :> <<"other", c, bad>>)

StdoutAndScript == <<"stdout", "script">>

=============================================================================
