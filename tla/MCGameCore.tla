----------------------------- MODULE MCGameCore -----------------------------
(* Instances of GameCore for TLC: one match, one wager. *)
EXTENDS GameCore, TLC

CONSTANTS u1, robotAi, b1, b2, k1, k2, c1, c2

MCRequests == {b1, b2}

MCListing(stop, kickoff, end) ==
    [stopSell |-> stop, options |-> [st \in {"6"} |-> {c1}], kickoff |-> kickoff, betEnd |-> end]

\* One listing without a closing time, kickoff at 1; the other brings it forward.
MCSteady == {MCListing(FALSE, 1, NoTime)}
MCMoving == MCSteady \cup {MCListing(FALSE, 0, NoTime)}

MCSymmetry == Permutations(MCRequests)
=============================================================================
