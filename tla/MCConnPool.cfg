SPECIFICATION FairSpec
INVARIANTS TypeOK PoolSound DeadlocksHaveADeadline
PROPERTIES CallsEnd
CONSTANTS
  Spenders = {s1}
  Deciders = {d1}
  Owners = {o1}
  Deleters = {e1}
  Worker = worker
  MaxOpen = 2
  MaxBatch = 2
  Nobody = Nobody
