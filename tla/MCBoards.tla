------------------------------ MODULE MCBoards ------------------------------
(* An instance of Boards for TLC: the first and the last hour of one betting day. *)
EXTENDS Boards, TLC

CONSTANTS u1, robot_expert, robot_ai, m1, m2, b1, b2, b3, c1, x1

MCBets == {b1, b2, b3}

\* The AI has a tip on both matches, the expert on the second.
MCAiTip     == [w \in {m1, m2} \X {"6"} |-> c1]
MCExpertTip == [x \in {x1} |-> [w \in {m1, m2} \X {"6"} |-> IF w[1] = m1 THEN NoTip ELSE c1]]

MCKickoff == [m \in {m1, m2} |-> IF m = m1 THEN 35 ELSE 58]

MCHours == {35, 58, 59}

MCSymmetry == Permutations(MCBets)
=============================================================================
