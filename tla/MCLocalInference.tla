-------------------------- MODULE MCLocalInference --------------------------
(***************************************************************************)
(* Instances of LocalInference for TLC: the questions of two members.      *)
(***************************************************************************)
EXTENDS LocalInference, TLC

Askers == [r \in Requests |-> IF r = 3 THEN "u2" ELSE "u1"]

=============================================================================
