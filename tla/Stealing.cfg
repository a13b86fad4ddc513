SPECIFICATION FairSpec
CONSTANTS
  p = p
  q = q
  Nowhere = Nowhere
  Thieves <- TwoThieves
  JunkTargets <- NoJunk
  Counters <- Either
  Size = 3
  MaxTop = 1
  MaxUses = 1
  MaxDeaths = 1
CHECK_DEADLOCK FALSE
INVARIANTS TypeOK WinnersTook TakersLocal
PROPERTIES OnlyDeadRobbed ImplementsWorkDeque TheftsFinished
