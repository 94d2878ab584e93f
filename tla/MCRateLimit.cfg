SPECIFICATION Spec
SYMMETRY RequestSymmetry
INVARIANTS TypeOK NeverOverRate NeverInDebt EvictedHasEarned
PROPERTIES RefusedWhenSpent RefusalsAreFree
CONSTANTS
  Keys = {"k1"}
  Requests = {r1, r2}
  Cost = 2
  Burst = 2
  Idle = 11
  Interval = 6
  MaxLag = 1
  MaxTime = 13
  NoKey = "none"
