\* Two workers and a connector that loses its contract between the read of a ledger entry and its rearm.
CONSTANTS
  a = a
  b = b
  k1 = k1
  k2 = k2
  X = X
  w1 = w1
  w2 = w2
  Records = {a}
  Keys = {k1}
  KeyOf <- OneRecord
  Contracts = {X}
  NoContract = NoContract
  NoRecord = NoRecord
  Workers = {w1, w2}
  Caps <- Switching
  MaxToken = 4
  MaxFaults = 1
  Upgraded = FALSE
SPECIFICATION Spec
SYMMETRY Symmetry
INVARIANTS AtMostOnceUnlessForced
