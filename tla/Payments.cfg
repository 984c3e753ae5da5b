CONSTANTS
  jibit1 = jibit1
  r1 = r1
  r2 = r2
  Intents = {jibit1}
  Jibit = {jibit1}
  Queryable = {jibit1}
  Requests = {r1, r2}
  Key <- SameKey
  Amount = 3
  Withdrawn = 2
  Fee = 1
  DailyCount = 2
  MaxCharges = 1
  Charged = 2
SPECIFICATION PaySpec
INVARIANTS
    
    FundsAccounted
    KeyDebitsOnce

    
CHECK_DEADLOCK FALSE
