SPECIFICATION FairSpec
CONSTANTS
  VUs = {v1, v2}
  Configs <- MCConfigs
INVARIANTS
  NoSendOnClosed
PROPERTIES
  StopEnds
