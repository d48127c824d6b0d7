SPECIFICATION MCSpec
CONSTANTS
  w1 = w1
  w2 = w2
  good = good
  other = other
  forged = forged
  ours = ours
  theirs = theirs
  k1 = k1
  k2 = k2
  m1 = m1
  m2 = m2
  Servers = {w1, w2}
  Requests <- MCRequestSet
  Workers = {w1, w2}
  Tokens = {good, other, forged}
  Issuers = {ours, theirs}
  SigningKeys = {k1, k2}
  IssuerOf <- MCIssuerOf
  SignedWith <- MCSignedWith
  OwnerOf <- MCOwnerOf
  NotBefore <- MCNotBefore
  Expires <- MCExpires
  UriOf <- MCUriOf
  Methods = {m1, m2}
  Parts = {"gateway", "authenticator"}
  Allowed <- MCAllowed
  Capacity = 1
  TokenTtl = 1
  JwksTtl = 0
  EndOfTime = 2
  Rotated = {k1}
INVARIANTS
  GatewayTypeOK
  UnavailableOnlyBefore
  AppOnlyIfAllowed
  ReportedOnce
  AuthTypeOK
  OwnKeysOnly
PROPERTIES
  AcceptedNow
  RevocationBound
SYMMETRY SameThreads
