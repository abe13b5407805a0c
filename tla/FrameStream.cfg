SPECIFICATION Spec
CONSTANTS
  a = a
  b = b
  Calls <- MCCalls
  V2Calls <- MCV2Calls
  HookCalls <- MCHookCalls
  MaxItems = 2
  MaxFaults = 1
INVARIANTS
  OneTerminal
PROPERTIES
  Contract
  StreamSettles
