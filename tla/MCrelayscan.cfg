\* One thread, three records of different sizes: limits, budget and poison.
CONSTANTS
  a = a
  b = b
  c = c
  k1 = k1
  s1 = s1
  s2 = s2
  t1 = t1
  t2 = t2
  Records = {a, b, c}
  Keys = {a, b, c}
  KeyOf <- Distinct
  Sources = {s1, s2}
  SourceOf <- TwoSources
  Size <- Growing
  MaxWire = 2
  Budget = 3
  Limit = 2
  MaxDead = 1
  Threads = {t1}
  Nobody = Nobody
  LeaseIds = {1, 2}
  MaxArrivals = 3
  MaxFaults = 1
SPECIFICATION Spec
SYMMETRY OneThread
PROPERTIES NoOvertaking
