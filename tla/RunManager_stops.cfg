SPECIFICATION Spec
CONSTANTS
  c1 = c1
  c2 = c2
  f1 = f1
  f2 = f2
  None = None
  StopCalls <- MCStopCalls
  Starters <- MCStarters
  Finalizers <- MCFinalizers
  Configs <- StopConfigs
SYMMETRY MCSymmetry
INVARIANTS
  OneStart
  OneFinalizer
  DrainCancelOpen
  EmergencyAborts
  LogAccounts
  NoOrphanRoutine
PROPERTIES
  ImplementsLifecycle
\* A run that ended takes no further step.
CHECK_DEADLOCK FALSE
