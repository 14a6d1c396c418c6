\* Two workers, two digests that claim one identity, no idempotency: safety and liveness.
CONSTANTS
  a = a
  b = b
  k1 = k1
  k2 = k2
  X = X
  w1 = w1
  w2 = w2
  Records = {a, b}
  Keys = {k1}
  KeyOf <- Conflict
  Contracts = {X}
  NoContract = NoContract
  NoRecord = NoRecord
  Workers = {w1, w2}
  Caps <- WithoutIdempotency
  MaxToken = 3
  MaxFaults = 2
  Upgraded = FALSE
SPECIFICATION FairSteadySpec
INVARIANTS PreWriteClean SingleIdentity DeliverySafe OutcomeTruth
PROPERTIES OutcomeOwned Settles
