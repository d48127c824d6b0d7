SPECIFICATION Spec
CONSTANTS
  o1 = o1
  o2 = o2
  o3 = o3
  o4 = o4
  o5 = o5
  s1 = s1
  s2 = s2
  s3 = s3
  Ops <- MCOps
  Keys <- MCKeys
  SigOf <- MCSigOf
  Important <- MCImportant
  NoItem = {}
  MaxEntries = 2
  Ttl = 2
  MaxOperationCount = 1
  MaxRequestSize = 2
PROPERTY ExpiredItemsReachDeque
