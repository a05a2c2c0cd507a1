SPECIFICATION MCSpec
CONSTANTS
  r1 = r1
  r2 = r2
  r3 = r3
  a1 = a1
  a2 = a2
  p1 = p1
  p2 = p2
  Runs = {r1, r2, r3}
  Outcomes <- MCOutcomes
  TickMs = 60
  Configs <- MCConfigs
  MaxTime = 3
  EvalSetups <- MCEvalSetups
  Readers = {p1, p2}
  maxEvents = 3
  batchLimit = 2
  MaxAppends = 4
  MaxDrops = 1
  Agents = {a1, a2}
  AgentSetups <- MCAgentSetups
  timeMarginMs = 2
  WorkerSkews <- MCWorkerSkews
  ApiClients = {p1, p2}
  TokenParts = 2
  LimiterSetups <- MCLimiterSetups
INVARIANTS
  PagesComplete
  AnswersAddUp
  TriggerExact
  StallReal
  RunSamplesFound
  RateKept
PROPERTIES
  ImplementsFeed
CHECK_DEADLOCK FALSE
