SPECIFICATION TrafficSpec
CONSTANTS
  NULL = NULL
  Arrivals = {a1, a2}
  Capacity = 3
  Parts = 2
  Refill = 1
  Window = 3
  Limit = 2
  Span = 2
  Burst = 3
  r1 = r1  r2 = r2  n1 = n1  n2 = n2  n3 = n3  m1 = m1  m2 = m2  m3 = m3
  b1 = b1  b2 = b2  t1 = t1  t2 = t2  t3 = t3  t4 = t4  v1 = v1
  Replicas = {r1, r2}
  Conns = {n1, n2, n3, m1, m2, m3}
  Batches = {b1, b2}
  Tasks = {t1, t2, t3, t4, v1}
  ReplicaOf <- PoolReplica
  BatchOf <- PoolBatch
  GameCodes = {g1, g2}
  Pool = 2
  BurstCount = 2
  Quantity = 4
  MaxHistory = 2
  MaxTicks = 3
  MaxForeign = 1
  MaxUsages = 3
  GameUsers = {w1, w2}
  GameCampaigns = {k1, k2}
  OwnerOf <- Owners
  w1 = w1  w2 = w2  k1 = k1  k2 = k2
  ListPageSize = 1
  MaxSecond = 2
SYMMETRY Symmetric
CHECK_DEADLOCK FALSE
INVARIANTS TrafficTypeOK LimitersSound BatchesSound ScanIsComplete StopsGracefully NoFalseAlarm
