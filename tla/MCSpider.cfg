SPECIFICATION FairSpiderSpec
CONSTANTS
  Daemons = {d1, d2}
  OneShots = {once}
  Free = Free
  Ghost = Ghost
  MaxStops = 2
  MaxRecycles = 1
INVARIANTS
  SpiderTypeOK
  SpidersBounded
  FileWhileCrawling
PROPERTIES
  StopsWhenAsked
  NothingStarves
  AlwaysASpider
