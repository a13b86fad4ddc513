\* The process runs the thread of a dead one, which never asks who it is.
SPECIFICATION Spec
CONSTANTS
  p = p
  q = q
  Junk = Junk
  Torn = Torn
  Funcs <- AllFuncs
  Args <- OneArg
  Callees <- AllFuncs
  Regions <- Both
  Owners <- Stolen
  Hard = p
  StackSize = 3
  HolderSize = 2
  MaxFaults = 1
INVARIANTS InstalledIntact
PROPERTIES ImplementsCallStack
