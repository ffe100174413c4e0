SPECIFICATION BetSpec
CONSTANTS
  u1 = u1
  u2 = u2
  robotAi = robotAi
  b1 = b1
  b2 = b2
  b3 = b3
  k1 = k1
  k2 = k2
  c1 = c1
  Users = {u1, robotAi}
  Robots = {robotAi}
  Matches = {m1}
  SubTypes = {"6", "1"}
  Codes = {c1}
  BetIds = {b1, b2, b3, k1, k2}
  RobotIds = {k1, k2}
  NoRow = NoRow
  Listings <- MCTimed
  Lock = 1
  NoTime = NoTime
  NoMatchRow = NoMatchRow
  NoCall = NoCall
  MaxTime = 3
  MaxRobotRuns = 2
  MaxMoves = 1
  MaxBetFaults = 1
SYMMETRY MCSymmetry
INVARIANTS
  BetTypeOK
  OneBetPerSelection
  NoPhantomCount
  EveryBetCounted
PROPERTIES
  ClosedTakesNoOneNew
