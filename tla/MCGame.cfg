SPECIFICATION GameSpec
CONSTANTS
  u1 = u1
  robotAi = robotAi
  b1 = b1
  b2 = b2
  k1 = k1
  k2 = k2
  c1 = c1
  c2 = c2
  Users = {u1, robotAi}
  Robots = {robotAi}
  Matches = {m1}
  SubTypes = {"6"}
  Codes = {c1}
  BetIds = {b1, b2, k1}
  RobotIds = {k1}
  NoRow = NoRow
  Listings <- MCSteady
  Lock = 1
  NoTime = NoTime
  NoMatchRow = NoMatchRow
  NoCall = NoCall
  MaxTime = 2
  MaxRobotRuns = 1
  MaxMoves = 0
  MaxBetFaults = 1
  Spiders = {spider}
  Apis = {api}
  Experts = {}
  Ais = {}
  NoCode = NoCode
  NoResult = NoResult
  NoMatch = NoMatch
  NoBet = NoBet
  NoDraw = NoDraw
  MaxRevisions = 1
  MaxFaults = 1
  MaxRestarts = 1
SYMMETRY MCSymmetry
INVARIANTS
  OneBetUntilPlayed
PROPERTIES
  SettleSpec
  AcceptedBeforeResult
