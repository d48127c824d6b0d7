SPECIFICATION ReportsSpec
CONSTANTS
  o1 = o1
  o2 = o2
  o3 = o3
  o4 = o4
  o5 = o5
  s1 = s1
  s2 = s2
  s3 = s3
  Ops <- MCOps
  Keys <- MCKeys
  SigOf <- MCSigOf
  Important <- MCImportant
  NoItem = {}
  MaxEntries = 2
  Ttl = 2
  MaxOperationCount = 2
  MaxRequestSize = 2
  Parts = {"aggregator", "distribution", "money", "merge", "registry", "rules"}
  d1 = d1
  d2 = d2
  Dists = {d1, d2}
  Samples <- MCSamples
  Options <- MCOptions
  MaxCount = 4
  Billion = 3
  Int64Max = 5
  Amounts <- MCAmounts
  Operations <- MCOperations
  Kind <- MCKind
  Int64Limit = 3
  Buckets <- MCBuckets
  Mergeable <- MCMergeable
  MaxAdds = 3
  Configs <- MCConfigs
  Paths = {"shelves", "books", "other"}
  Matches <- MCMatches
  BadUrls = {"bad"}
  Lower <- MCLower
  Reserved <- MCReserved
  Services <- MCServices
  Infos <- MCInfos
  MaxReports = 2
INVARIANTS
  TypeOK
  CountedOnce
  HeldWithinInterval
  DescribesSamples
  FitsSamples
  SumExact
  TotalsKept
  LookupAnswers
  SpecComplete
  ReportedCounts
PROPERTIES
  ReportKeepsLiveEntries
  FlushHandsOutExpired
  ImplementsLedger
CHECK_DEADLOCK FALSE
