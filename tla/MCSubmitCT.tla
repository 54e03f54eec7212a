----------------------------- MODULE MCSubmitCT -----------------------------
(***************************************************************************)
(* A leaf and three certificates of its issuer: one issued by a root that  *)
(* is not submitted, one cross-signed by the leaf's name, which closes a   *)
(* cycle of issuers, and a self-signed one.  One log takes every           *)
(* certificate; the other's interval starts after one of them has expired, *)
(* includes the day another one does and ends on the day the leaf does.    *)
(***************************************************************************)
EXTENDS SubmitCT

MCCerts == {"leaf", "inter", "cross", "self"}
MCSubject == [c \in MCCerts |-> IF c = "leaf" THEN "L" ELSE "I"]
MCIssuer ==
  [c \in MCCerts |-> CASE c \in {"leaf", "self"} -> "I" [] c = "cross" -> "L" [] OTHER -> "R"]
MCExpiration == [c \in MCCerts |-> CASE c = "cross" -> 0 [] c = "inter" -> 2 [] OTHER -> 3]
MCLogs == <<"any", "shard">>
MCInterval == [l \in {"any", "shard"} |-> IF l = "any" THEN <<>> ELSE <<1, 3>>]
MCInputs ==
  { <<"leaf", "self", "cross">>, <<"self", "inter">>, <<"leaf", "unparsable", "self">>,
    <<"key", "inter", "invalid">>, <<"unparsable", "self", "unparsable">> }
=============================================================================
