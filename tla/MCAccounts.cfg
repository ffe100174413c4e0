SPECIFICATION FairAccountsSpec
CONSTANTS
  u1 = u1
  robot = robot
  Users = {u1, robot}
  Logins = {l1, l2}
  Sharers = {s1, s2}
  Settlers = {t1}
  Reset = Reset
  Conns = {c1, c2}
  Idle = Idle
  Free = Free
  NoUser = NoUser
  None = None
  StartCredits <- MCStart
  InitialCredits = 2
  ShareBonus = 2
  MaxRequests = 3
  MaxRows = 1
  MaxDays = 2
  MaxFaults = 1
INVARIANTS
  AccountsTypeOK
  LedgerExact
  NoStall
PROPERTIES
  ImplementsPurse
  DueResetComes
  EveryoneReturns
CHECK_DEADLOCK FALSE
