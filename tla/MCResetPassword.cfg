SPECIFICATION Spec
CONSTANTS
  UUIDs = {"u1"}
  Inputs <- MCInputs
  MaxCalls = 2
  Clients = {"c1"}
  BufferSize = 1
  MergedSize = 1
  TailSize = 1
  Price <- MCPrice
  PrefixesOf <- MCPrefixes
  Scenarios <- MCScenarios
INVARIANT ResetTakesEffect
CHECK_DEADLOCK FALSE
