\* Routes between schemas of two fields; a session of two calls;
\* overlapping runs of two routes.
CONSTANTS
  r1 = r1
  r2 = r2
  Routes = {"orders", "invoices"}
  Runs = {r1, r2}
  NoRun = NoRun
  MaxClaims = 4
  MaxFaults = 2
  SourceSchemas <- SourceSchemaSet
  TargetSchemas <- TargetSchemaSet
  NameScores = {0, 80, 100}
  ModelScores = {0, 100}
  Files <- FileSet
  Caps <- CapSet
  NoCap = 9
  Resolvers = {"missing", "fails", "integer", "string"}
  SourceFields = {"f", "g"}
  TargetFields = {1, 2}
  Proposals <- ProposalSet
  SourceRecords <- VersionSizes
  MaxInputRecords = 2
  MaxReviews = 2
  MaxCalls = 2
  MaxUpsets = 1
  Sinks = {"post", "keyed post", "transactional", "plain"}
  Inputs <- InputSet
  WriteBudget = 2
  ReadBudget = 7
  BatchLimit = 2
  Modes = {"none", "page", "cursor"}
  Totals = {0, 2, 3, 6, 8}
  PageSize = 2
  MaxPages = 3
SPECIFICATION MCSpec
SYMMETRY Symmetry
CHECK_DEADLOCK FALSE
INVARIANTS NothingSkipped CountedOnce MappingSafe  SessionTrue WriteTruth PagesRead
PROPERTIES LeaseFenced
