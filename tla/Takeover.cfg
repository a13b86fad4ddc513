\* Processes take over the indices of dead ones.
SPECIFICATION FairSpec
CONSTANTS
  NumProc = 2
  Pids <- SomePids
  Commands <- OneCommand
\* Every process has an index or is dead.
CHECK_DEADLOCK FALSE
INVARIANT IndexIsHard
PROPERTIES TakenFromDead LookingEnds
