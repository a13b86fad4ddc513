\* main -s; a process that jumps through nothing stops.
SPECIFICATION StartingSpec
CONSTANTS
  p = p
  Junk = Junk
  Torn = Torn
  JobPush = "singleJobPush"
  FirstJob = "firstJob"
  Funcs <- AllFuncs
  Args <- OneArg
  Callees <- AllFuncs
  Regions <- Own
  Owners <- Own
  Hard = p
  StackSize = 3
  HolderSize = 2
  MaxFaults = 0
CHECK_DEADLOCK FALSE
PROPERTY OverheadCallsJobPush
