SPECIFICATION SettleSpec
CONSTANTS
  u1 = u1
  u2 = u2
  b1 = b1
  b2 = b2
  c1 = c1
  c2 = c2
  Users <- MCUsers
  Matches = {m1}
  SubTypes = {"6"}
  Codes <- MCCodes
  BetIds <- MCBets
  NoRow = NoRow
  Spiders = {spider}
  Apis = {api}
  Experts = {expert}
  Ais = {ai}
  NoCode = NoCode
  NoResult = NoResult
  NoMatch = NoMatch
  NoBet = NoBet
  NoDraw = NoDraw
  MaxRevisions = 2
  MaxFaults = 1
  MaxRestarts = 1
SYMMETRY MCSymmetry
INVARIANTS
  SettleTypeOK
  VerdictsJustified
  NoWinLost
  CountedOncePerSettler
