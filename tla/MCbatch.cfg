\* Two workers, two records, atomic batches whose members may lose their claims.
CONSTANTS
  a = a
  b = b
  k1 = k1
  k2 = k2
  X = X
  w1 = w1
  w2 = w2
  Records = {a, b}
  Keys = {k1, k2}
  KeyOf <- TwoRecords
  Contracts = {X}
  NoContract = NoContract
  NoRecord = NoRecord
  Workers = {w1, w2}
  Caps <- OneBatch
  MaxToken = 2
  MaxFaults = 2
  Upgraded = FALSE
SPECIFICATION SteadySpec
SYMMETRY Symmetry
INVARIANTS DeliverySafe
VIEW WithoutReceipts
