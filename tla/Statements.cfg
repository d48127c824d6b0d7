SPECIFICATION StatementsSpec
CONSTANTS
  Parts = {}
  d1 = d1
  d2 = d2
  Dists = {d1, d2}
  Samples = {18}
  Options <- FewOptions
  MaxCount = 2
  Billion = 3
  Int64Max = 1
  Amounts <- FewAmounts
  Operations <- FewOperations
  Kind <- MCKind
  Int64Limit = 3
  Buckets <- MCBuckets
  Mergeable <- MCMergeable
  MaxAdds = 3
  Configs <- FewConfigs
  Paths = {"shelves", "books", "other"}
  Matches <- MCMatches
  BadUrls = {"bad"}
  Lower <- MCLower
  Reserved <- MCReserved
  Services <- FewServices
  Infos = {}
  MaxReports = 2
INVARIANT AnyStatementHolds
CHECK_DEADLOCK FALSE
