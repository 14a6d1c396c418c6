\* One worker on a ledger an earlier release left, empty or not, and a connector that gains and loses its contract;
\* three writers of one file; an audit trail that is damaged; source keys that rotate;
\* two commands that use and remember recipes.
CONSTANTS
  a = a
  b = b
  k1 = k1
  k2 = k2
  X = X
  w1 = w1
  w2 = w2
  Records = {a}
  Keys = {k1}
  KeyOf <- OneRecord
  Contracts = {X}
  NoContract = NoContract
  NoRecord = NoRecord
  Workers = {w1}
  Caps <- Switching
  MaxToken = 4
  MaxFaults = 3
  Upgraded = TRUE
  Writers = {"a", "b", "c"}
  ProcessOf <- ProcessTable
  Format <- FormatTable
  MaxTries = 1
  MaxTroubles = 2
  AuditWriters = {"s", "u"}
  MaxEvents <- EventQuota
  MaxLogicalBytes <- ByteQuota
  Signs <- SignTable
  AuditEvents = {"x", "y", "bad"}
  InvalidEvents = {"bad"}
  EventBytes <- ByteTable
  SignatureBytes = 1
  BatchEvents = 2
  MaxBatch = 3
  MaxAppends = 4
  MaxDamages = 2
  SourceKeys = {"old", "new"}
  RecipientKeys = {"r1", "r2"}
  HeldKeys = {"r1"}
  AllowUnsigned = TRUE
  AllowBlank = FALSE
  Graces = {1, 2}
  Horizon = 2
  Forever = 9
  c1 = c1
  c2 = c2
  Commands = {c1, c2}
  Threshold <- Thresholds
  MaxVersions = 2
  MaxRuns = 3
SPECIFICATION MCSpec
SYMMETRY TwoCommands
CHECK_DEADLOCK FALSE
INVARIANTS NothingLost LockSafe
PROPERTIES ReplaySafe PublicationTrue TrailTrue  RecipesSafe
