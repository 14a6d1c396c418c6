\* Liveness of one worker behind poison and lapsed leases.
CONSTANTS
  a = a
  b = b
  c = c
  k1 = k1
  s1 = s1
  s2 = s2
  t1 = t1
  t2 = t2
  Records = {a, b}
  Keys = {a, b}
  KeyOf <- Distinct
  Sources = {s1}
  SourceOf <- OneSource
  Size <- Growing
  MaxWire = 2
  Budget = 2
  Limit = 1
  MaxDead = 1
  Threads = {t1}
  Nobody = Nobody
  LeaseIds = {1, 2}
  MaxArrivals = 2
  MaxFaults = 2
SPECIFICATION FairSpec
PROPERTIES Drains
