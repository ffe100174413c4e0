SPECIFICATION BetSpec
CONSTANTS
  u1 = u1
  u2 = u2
  robotAi = robotAi
  b1 = b1
  b2 = b2
  b3 = b3
  k1 = k1
  k2 = k2
  c1 = c1
  Users = {u1, robotAi}
  Robots = {robotAi}
  Matches = {m1}
  SubTypes = {"6", "1"}
  Codes = {c1}
  BetIds = {b1}
  RobotIds = {}
  NoRow = NoRow
  Listings <- MCMoving
  Lock = 0
  NoTime = NoTime
  NoMatchRow = NoMatchRow
  NoCall = NoCall
  MaxTime = 2
  MaxRobotRuns = 0
  MaxMoves = 1
  MaxBetFaults = 0
PROPERTIES
  AcceptedBeforeKickoff
