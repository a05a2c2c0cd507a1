SPECIFICATION Spec
CONSTANTS
  w1 = w1
  w2 = w2
  Workers = {w1, w2}
  None = None
  Plans <- LeasePlans
INVARIANTS DisjointRanges StageCovered LossHandled
PROPERTY GoneLeasesEnd
