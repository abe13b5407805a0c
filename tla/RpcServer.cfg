SPECIFICATION Spec
CONSTANTS
  Requests = {r1, r2}
  Envelopes <- MCEnvelopes
  Routes <- MCRoutes
  Registries <- MCRegistries
  Arms <- MCArms
  Ops <- MCOps
  Responses <- MCResponses
  Kinds = {"registry", "file", "typed", "shared", "product"}
INVARIANTS
  AnswersAreOwn
  HandlerGuarded
  LeaseBalance
PROPERTIES
  EveryRequestAnswered
