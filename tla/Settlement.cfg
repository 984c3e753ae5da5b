CONSTANTS
  u1 = u1 
  u2 = u2
  u3 = u3
  u4 = u4
  i1 = i1
  i2 = i2
  Users = {u1, u2, u3, u4}
  Instances = {i1, i2}
  MaxRetries = 2
  EntryFee = 10
  StoredPool = 32
  InitialActive <- AnyField
  InitialScores <- DistinctScores
  ClosingScores <- SettledScores
  Started = {u3}
  Disqualifiable = {u1}
  Triggers = 1
  Disturbances = 2
SPECIFICATION Spec
INVARIANTS
    SingleSettler
    PaidOnceWithinPool
    WinnersAccounted
    NoCreditWhileExposed
PROPERTIES
    ImplementsPayout
SYMMETRY InstanceSymmetry
CHECK_DEADLOCK FALSE
