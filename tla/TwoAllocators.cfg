\* Two processes allocate and free, with faults.
SPECIFICATION FairSpec
CONSTANTS
  Procs <- TwoProcs
  Sizes <- SomeSizes
  Code <- Names
  High = 1
  Pool = 4
  TableSize = 4
  MaxFaults = 1
\* A process that returned through a size is stuck.
CHECK_DEADLOCK FALSE
INVARIANTS TypeOK GrabHasHolder NothingLeaks
PROPERTIES GrabEnds
