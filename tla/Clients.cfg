SPECIFICATION ClientsSpec
CONSTANTS
  c1 = c1
  c2 = c2
  Calls <- MCCalls
  Wires <- MCWires
  Preference <- MCPreference
  Declared <- MCDeclared
  Content <- MCContent
  Deliveries <- MCDeliveries
  IdSource <- MCIdSource
  Shapes = {"none", "body_not_object", "no_record_id"}
  ReplyKinds = {"call", "data", "end", "error", "cancel"}
  MaxReply = 3
  MaxAttempts = 3
  Callers <- MCCalls
  Operations = {"u", "v"}
  Languages = {"rust", "go", "dart", "gleam", "wasm"}
  Names = {"a"}
  MaxSteps = 2
CHECK_DEADLOCK FALSE
INVARIANTS
  SentOnce
  OkIsWhole
  SafeToRetry
  ExchangeIsOwn
