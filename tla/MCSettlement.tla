---------------------------- MODULE MCSettlement ----------------------------
(* Instances of Settlement for TLC: one match, one sub type, two codes. *)
EXTENDS Settlement, TLC

CONSTANTS u1, u2, b1, b2, c1, c2

MCUsers == {u1, u2}
MCBets  == {b1, b2}
MCCodes == {c1, c2}

\* Users, bets and codes only ever occur symmetrically; none is named.
MCSymmetry == Permutations(MCUsers) \cup Permutations(MCBets) \cup Permutations(MCCodes)
=============================================================================
