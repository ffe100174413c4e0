----------------------------- MODULE MCBetting -----------------------------
(* Instances of Betting for TLC. *)
EXTENDS Betting, TLC

CONSTANTS u1, u2, robotAi, b1, b2, b3, k1, k2, c1

MCRequests == {b1, b2, b3}
MCRobotIds == {k1, k2}

MCListing(stop, sts, kickoff, end) ==
    [stopSell |-> stop, options |-> [st \in sts |-> {c1}], kickoff |-> kickoff, betEnd |-> end]

\* On sale, on sale for the handicap only, stopped: all at the same times.
MCSteady == {MCListing(FALSE, {"6", "1"}, 2, 2), MCListing(FALSE, {"1"}, 2, 2),
             MCListing(TRUE, {"6"}, 2, 2)}

\* Its closing time only becomes known later.
MCTimed == MCSteady \cup {MCListing(FALSE, {"6"}, 2, NoTime)}

\* The match is brought forward.
MCMoving == MCSteady \cup {MCListing(FALSE, {"6"}, 1, 1)}

MCSymmetry == Permutations(MCRequests) \cup Permutations(MCRobotIds)
=============================================================================
