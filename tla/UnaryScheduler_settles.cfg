CONSTANTS
  c1 = c1
  c2 = c2
  c3 = c3
  Calls <- TwoCalls
  Keys <- MCKeys
  NoKey = "none"
  NoExec = NoExec
  Plans <- LivePlans
  MaxEntries = 2
SPECIFICATION FairSpec
PROPERTY EveryCallSettles
