SPECIFICATION Spec
CONSTANTS
  r1 = r1
  r2 = r2
  r3 = r3
  r4 = r4
  s1 = s1
  s2 = s2
  none = none
  ok = ok
  error = error
  blank = blank
  Reqs <- MCReqs
  SigOf <- MCSigOf
  Keys <- MCKeys
  NoItem = none
  MaxEntries = 1
  Ttl = 2
  FlushInterval = 1
  Answers = {ok, error, blank}
  Errors = {error}
  Blank = {blank}
  Important = {r4}
INVARIANTS
  TypeOK
  ResponseFresh
  AggregatedOnce
  DeniedConsumesNothing
PROPERTIES
  RefreshesSpaced
  ImplementsLedger
