\* Up to three MCP clients, with or without Desktop, around one endpoint (MCScenarios).
SPECIFICATION Spec
CONSTANTS
  k1 = k1  k2 = k2  k3 = k3
  Clients = {k1, k2, k3}
  Instances = {1, 2, 3}
  Scenarios <- MCScenarios
  None = None
SYMMETRY Symmetric
CHECK_DEADLOCK FALSE
INVARIANTS
  StartedIsOwned
  DesktopKeepsItsRuntime
PROPERTIES
  OnlyLastOwnerStops
