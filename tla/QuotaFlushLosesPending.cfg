SPECIFICATION Spec
CONSTANTS
  r1 = r1
  r2 = r2
  r3 = r3
  r4 = r4
  s1 = s1
  s2 = s2
  none = none
  ok = ok
  error = error
  temp = temp
  dummy = dummy
  Reqs <- MCReqs
  SigOf <- MCSigOf
  Keys <- MCKeys
  NoItem = none
  Temp = temp
  Dummy = dummy
  MaxEntries = 2
  Ttl = 2
  FlushInterval = 1
  Answers = {ok, error}
  Errors = {error}
PROPERTY FlushReturnsPending
