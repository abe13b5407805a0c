SPECIFICATION Spec
CONSTANTS
  Catalogs <- MCCatalogs
  Palettes <- MCPalettes
  Names <- MCNames
  MaxChain = 4
CHECK_DEADLOCK FALSE
INVARIANTS
  SchemasAgree
  ChainsAgree
  PlanEmission
