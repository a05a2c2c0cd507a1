SPECIFICATION Spec
CONSTANTS
  c1 = c1
  c2 = c2
  f1 = f1
  f2 = f2
  None = None
  StopCalls <- MCStopCalls
  Starters = {c1}
  Finalizers <- MCFinalizers
  Configs <- ServerConfigs
SYMMETRY MCSymmetry
INVARIANTS
  EmergencyAbortsAlways
\* A run that ended takes no further step.
CHECK_DEADLOCK FALSE
