SPECIFICATION ClientsSpec
CONSTANTS
  c1 = c1
  c2 = c2
  Calls <- MCCalls
  Wires <- MCWires
  Preference <- MCPreference
  Declared <- MCDeclared
  Content <- MCContent
  Deliveries <- MCDeliveries
  IdSource <- MCIdSource
  Shapes = {"none"}
  ReplyKinds = {"data", "end", "error"}
  MaxReply = 2
  MaxAttempts = 1
  Callers <- MCCalls
  Operations = {"u"}
  Languages = {"rust"}
  Names = {}
  MaxSteps = 0
CHECK_DEADLOCK FALSE
INVARIANT OkIsTheAnswer
