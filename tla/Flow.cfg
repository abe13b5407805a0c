CONSTANTS
  c1 = c1
  c2 = c2
  c3 = c3
  observer = observer
  iterator = iterator
  user = user
  NoGate = NoGate
  Calls <- MCCalls
  Keys <- MCKeys
  Windows <- MCWindows
  Quiets <- MCQuiets
  MaxGates = 1
  CallsUntil = 3
  MaxTime = 6
  MaxOpened = 4
  Plans <- MCPlans
  Views <- MCViews
  Iterators <- MCIterators
  Cancellers <- MCCancellers
  MaxSessions = 4
  Strategies <- AllStrategies
  Capacities <- MCCapacities
  MaxItems = 5
SPECIFICATION FlowSpec
INVARIANTS InOrder CleanEndIsComplete
PROPERTIES GatesHold GatesLetGo SessionsAccounted HandleProgress EndIsReported
CHECK_DEADLOCK FALSE
