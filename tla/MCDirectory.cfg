SPECIFICATION Spec
SYMMETRY Symmetry
INVARIANTS TypeOK OneAgentPerCall AnsweredKeyIsOwn AnswerNotStale NothingMissed TotalCoversPage
CONSTANTS
  Users = {u1}
  AgentIDs = {a1, a2}
  Keys = {k1, k2}
  Calls = {c1, c2}
  TxnIDs = {t1, t2, t3}
  MaxTries = 2
  MaxAgents = 2
  MaxTime = 1
  DefaultLimit = 2
  MaxLimit = 2
  RawLimits <- SomeLimits
  RawOffsets <- SomeOffsets
  Owners <- EveryOwner
  Statuses <- SomeStatuses
  All = All
  None = None
