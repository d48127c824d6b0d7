SPECIFICATION Spec
CONSTANTS
  r1 = r1
  r2 = r2
  r3 = r3
  r4 = r4
  s1 = s1
  s2 = s2
  none = none
  ok = ok
  error = error
  blank = blank
  Reqs <- MCReqs
  SigOf <- MCSigOf
  Keys <- MCKeys
  NoItem = none
  MaxEntries = 2
  Ttl = 3
  FlushInterval = 2
  Answers = {ok, error}
  Errors = {error}
  Blank = {}
  Important = {}
INVARIANT FlushedNotSentBefore
