----------------------------- MODULE MCBallots -----------------------------
(***************************************************************************)
(* Two ballots for TLC, of the same members and administrators:            *)
(*   "times"   candidate times are voted on; one title may be nominated,   *)
(*             and nobody opens a card to vote for it                      *)
(*   "titles"  a preset of two nights; no candidate times are offered, so  *)
(*             nobody opens a card of times                                *)
(***************************************************************************)
EXTENDS MCEventBallot

Preset == INSTANCE EventBallot WITH PresetTimes <- TwoNights

VARIABLE focus

BallotsInit == Init /\ focus \in {"times", "titles"}

BallotsNext ==
    /\ UNCHANGED focus
    /\ \/ /\ focus = "times" /\ Next
          /\ UNCHANGED votecard /\ \A e \in Events : Len(ballot'[e].line) <= 1
       \/ /\ focus = "titles" /\ Preset!Next
          /\ UNCHANGED <<timecard, offered>>

BallotsSpec == BallotsInit /\ [][BallotsNext]_<<vars, focus>>

=============================================================================
