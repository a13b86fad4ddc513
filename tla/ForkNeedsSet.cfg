\* A fork without assertions.
SPECIFICATION Spec
CONSTANTS
  Code <- Names
  Job <- OneJob
  High = 21845
  PoolSize = 2
  DoAssert = FALSE
\* The process is lost.
CHECK_DEADLOCK FALSE
PROPERTY AcquireReturns
