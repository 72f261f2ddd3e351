--------------------------- MODULE MCTransientUI ---------------------------
(* Instances of TransientUI for TLC. *)
EXTENDS TransientUI

\* one command with two cards
OneBatch == [c \in Cards |-> CHOOSE b \in Batches : TRUE]

=============================================================================
