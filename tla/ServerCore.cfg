SPECIFICATION CoreSpec
CONSTANTS
  Tasks = {a, b}
  Threads = {t1, t2, t3, t4}
  Empty = Empty
  Capacity = 3
  CacheKeys = {k1, k2, k3}
  CacheValues = {v1, v2}
  Capacities = {0, 1, 2}
  Expire = 2
  Now = {0, 1, 2}
  TimeMod = 8
  Registered = {"ca", "cb"}
  MaxRequests = 2
  MaxPings = 1
  MaxRuns = 2
SYMMETRY Symmetry
CHECK_DEADLOCK TRUE
INVARIANTS RingInv NoLostWakeup CacheOK PluginsOK LifeOK
PROPERTIES FifoSpec
