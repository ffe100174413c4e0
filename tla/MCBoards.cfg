SPECIFICATION BoardsSpec
CONSTANTS
  u1 = u1
  robot_expert = robot_expert
  robot_ai = robot_ai
  m1 = m1
  m2 = m2
  b1 = b1
  b2 = b2
  b3 = b3
  c1 = c1
  x1 = x1
  Users = {u1, robot_expert, robot_ai}
  Matches = {m1, m2}
  SubTypes = {"6"}
  Codes = {c1}
  BetIds <- MCBets
  NoRow = NoRow
  NoCode = NoCode
  NoResult = NoResult
  ExpertRobot = robot_expert
  AiRobot = robot_ai
  Experts = {x1}
  ExpertTip <- MCExpertTip
  AiTip <- MCAiTip
  NoTip = NoTip
  Kickoff <- MCKickoff
  Hours <- MCHours
  Calls = {call}
  NoEntry = NoEntry
  MaxStores = 2
  MaxLate = 1
  MaxReadFaults = 1
SYMMETRY MCSymmetry
INVARIANTS
  BoardsTypeOK
  PKStands
  WinnerLeads
  ReadyHolds
  SoleWinnerNamed
  EntriesHold
CHECK_DEADLOCK FALSE
