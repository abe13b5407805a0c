CONSTANTS
  c1 = c1
  c2 = c2
  c3 = c3
  Calls <- MCCalls
  Keys <- MCKeys
  NoKey = "none"
  NoExec = NoExec
  Plans <- SafetyPlans
  MaxEntries = 2
SPECIFICATION Spec
SYMMETRY Symmetry
INVARIANTS OwnPrincipal DedupedOnce SerialByKey
