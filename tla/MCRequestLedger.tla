-------------------------- MODULE MCRequestLedger --------------------------
(***************************************************************************)
(* Instances of RequestLedger for TLC.  Form 1 asks for a new season and   *)
(* an exact repair, form 2 for a repair alone, form 3 for two new seasons, *)
(* form 4 for one.                                                         *)
(***************************************************************************)
EXTENDS RequestLedger

AskSeerr == [f \in Forms |-> CASE f = 2 -> {} [] f = 3 -> {"s1", "s2"} [] OTHER -> {"s1"}]
AskSonarr == [f \in Forms |-> IF f \in {1, 2} THEN {"e1"} ELSE {}]

=============================================================================
