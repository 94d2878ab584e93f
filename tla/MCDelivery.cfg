SPECIFICATION Spec
SYMMETRY WorkerSymmetry
INVARIANTS TypeOK BatchIsCurrent DeliveredWasReceived DuplicatesNeedFaults AttemptsBounded GivenUpLast
PROPERTIES SettledStays ImplementsOutbox
CONSTANTS
  Workers = {w1, w2}
  Deliveries = {"d1", "d2"}
  Hooks = {"h1"}
  HookOf <- OneHook
  retryDelays <- ThreeDelays
  Batch = 2
  MaxFaults = 2
  Unclaimed = Unclaimed
  NoDelivery = NoDelivery
