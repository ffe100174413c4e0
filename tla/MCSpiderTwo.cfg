SPECIFICATION SpiderSpec
CONSTANTS
  Daemons = {d1, d2}
  OneShots = {once}
  Free = Free
  Ghost = Ghost
  MaxStops = 0
  MaxRecycles = 1
INVARIANTS
  OneSpider
