SPECIFICATION FairCrawlSpec
CONSTANTS
  Matches = {m1}
  Rule = rule
  Experts = {}
  Offers <- MCOffers
  Requests = {r1}
  PickCodes = {"3", "1"}
  Lines <- MCLines
  Outcomes <- MCOutcomes
  RetryCount = 1
  MaxListings = 2
  MaxPages = 2
  NoLine = NoLine
  NoScore = NoScore
  NoCode = NoCode
  NoFavour = NoFavour
  NoMatch = NoMatch
  NoInfo = NoInfo
  NoOutcome = NoOutcome
  NoResult = NoResult
  NoPick = NoPick
INVARIANTS
  CrawlTypeOK
  HandicapJudgedWhenCrawled
  DrawListRight
  GradesJustified
PROPERTIES
  GradeStands
  CrawlsEnd
