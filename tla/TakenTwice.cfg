\* Two thieves whose entries have equal counters.
SPECIFICATION Spec
CONSTANTS
  p = p
  q = q
  Nowhere = Nowhere
  Thieves <- TwoThieves
  JunkTargets <- NoJunk
  Counters <- Equal
  Size = 3
  MaxTop = 1
  MaxUses = 1
  MaxDeaths = 0
CHECK_DEADLOCK FALSE
INVARIANT StolenOnce
