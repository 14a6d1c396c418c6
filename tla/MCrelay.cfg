\* Two digests of one identity, re-sent after acknowledgement and dead letter.
CONSTANTS
  a = a
  b = b
  c = c
  k1 = k1
  s1 = s1
  s2 = s2
  t1 = t1
  t2 = t2
  Records = {a, b}
  Keys = {k1}
  KeyOf <- Conflict
  Sources = {s1}
  SourceOf <- OneSource
  Size <- Unit
  MaxWire = 2
  Budget = 2
  Limit = 2
  MaxDead = 2
  Threads = {t1, t2}
  Nobody = Nobody
  LeaseIds = {1, 2}
  MaxArrivals = 3
  MaxFaults = 2
SPECIFICATION Spec
SYMMETRY TwoThreads
INVARIANTS OneRecordPerIdentity
PROPERTIES RevocationFence LeaseOwned 
