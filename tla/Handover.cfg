\* The scheduler starts the thread of a job.
SPECIFICATION HandoverSpec
CONSTANTS
  p = p
  Junk = Junk
  Torn = Torn
  Work = "work"
  JobFunc = "scheduler"
  Funcs <- AllFuncs
  Args <- OneArg
  Callees <- AllFuncs
  Regions <- Own
  Owners <- Own
  Hard = p
  StackSize = 3
  HolderSize = 2
  MaxFaults = 0
CHECK_DEADLOCK FALSE
PROPERTY ResetStartsTheJob
