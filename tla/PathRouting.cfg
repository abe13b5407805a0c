SPECIFICATION RoutingSpec
CONSTANTS
  Raws <- MCRaws
  Scalars <- MCScalars
  Sources <- MCSources
  Maps <- MCMaps
  MaxDepth = 2
  MaxMapEdits = 1
  Headers = {"traceparent", "x-request-id"}
CHECK_DEADLOCK FALSE
INVARIANTS
  RoutesResolve
  GlueAdmitted
  HandlersDocumented
