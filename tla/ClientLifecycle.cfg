SPECIFICATION FairSpec
CONSTANTS
  app1 = app1
  app2 = app2
  rep1 = rep1
  rep2 = rep2
  Callers = {app1}
  Stoppers = {app2}
  Reports = {rep1}
  Configs <- MCConfigs
  MaxStarts = 2
  MayRaise = TRUE
INVARIANTS
  TypeOK
  DroppedAreLate
  RepeatsPerStart
PROPERTIES
  ImplementsLedger
  StopComesToRest
  HeldIsFlushed
