\* The process runs its own thread: capsules, faults, resetWhoAmI.
SPECIFICATION FairSpec
CONSTANTS
  p = p
  q = q
  Junk = Junk
  Torn = Torn
  Funcs <- OneFunc
  Args <- OneArg
  Callees <- OneReset
  Regions <- Own
  Owners <- Own
  Hard = p
  StackSize = 3
  HolderSize = 2
  MaxFaults = 2
INVARIANTS TypeOK InstalledIntact
PROPERTIES LiveFrozen ImplementsCallStack HandoverCompletes
