--------------------------- MODULE CommandCustody ---------------------------
(***************************************************************************)
(* What the transient interface promises about a command message, whatever *)
(* the claims, leases, failures and restarts beneath it: every card of the *)
(* command has a fate that is settled once, and the command is removed     *)
(* only after every one of its cards was discarded.                        *)
(***************************************************************************)

CONSTANTS Cards, Batches, BatchOf

VARIABLES
    fate,     \* open, discarded or wanted
    removed   \* the commands taken off Discord

custodyVars == <<fate, removed>>

CustodyInit ==
    /\ fate = [c \in Cards |-> "open"]
    /\ removed = {}

\* Some open cards are discarded (a restart abandons several at once).
Discard(D) ==
    /\ \A c \in D : fate[c] = "open"
    /\ fate' = [c \in Cards |-> IF c \in D THEN "discarded" ELSE fate[c]]
    /\ UNCHANGED removed

\* A user, or the worker on a user's behalf, preserves an open card.
Preserve(c) ==
    /\ fate[c] = "open"
    /\ fate' = [fate EXCEPT ![c] = "wanted"]
    /\ UNCHANGED removed

Remove(b) ==
    /\ \A c \in Cards : BatchOf[c] = b => fate[c] = "discarded"
    /\ removed' = removed \union {b}
    /\ UNCHANGED fate

CustodyNext ==
    \/ \E D \in SUBSET Cards : Discard(D)
    \/ \E c \in Cards : Preserve(c)
    \/ \E b \in Batches : Remove(b)

CustodySpec == CustodyInit /\ [][CustodyNext]_custodyVars

=============================================================================
