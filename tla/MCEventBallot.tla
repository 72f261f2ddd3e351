--------------------------- MODULE MCEventBallot ---------------------------
(* Instances of EventBallot for TLC. *)
EXTENDS EventBallot, TLC

Generic == <<>>
TwoNights == <<1, 2>>

BallotSymmetry == Permutations(Users) \union Permutations(Titles) \union Permutations(Admins)

=============================================================================
