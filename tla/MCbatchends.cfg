\* Two processes that seal batches for one recipient; one worker, two records, batches with and without keys that match scalar writes.
CONSTANTS
  a = a
  b = b
  k1 = k1
  k2 = k2
  X = X
  w1 = w1
  w2 = w2
  Records = {a, b}
  Keys = {k1, k2}
  KeyOf <- TwoRecords
  Contracts = {X}
  NoContract = NoContract
  NoRecord = NoRecord
  Workers = {w1}
  Caps <- Batching
  MaxToken = 2
  MaxFaults = 1
  Upgraded = FALSE
  p1 = p1
  p2 = p2
  Sources = {p1, p2}
  Certificates <- CertificateSet
  MaxUsedKeys = 3
  BatchRecords = 2
  LastInstant = 2
  MaxMishaps = 2
SPECIFICATION MCSpec
SYMMETRY TwoSources
CHECK_DEADLOCK FALSE
INVARIANTS SealingSafe
PROPERTIES ReplaySafe 
