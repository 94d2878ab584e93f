SPECIFICATION FairSpec
PROPERTIES EverySettled DeletesEnd
CONSTANTS
  Workers = {w1, w2}
  Deliveries = {"d1", "d2"}
  Hooks = {"h1"}
  HookOf <- OneHook
  retryDelays <- TwoDelays
  Batch = 1
  MaxFaults = 1
  Unclaimed = Unclaimed
  NoDelivery = NoDelivery
