SPECIFICATION Spec
CONSTANTS
  Files <- MCFiles
  Locations <- MCLocations
  Location <- MCLocation
  Priority <- MCPriority
  Whitelist = {}
  Schemas = {"power", "mouse"}
  Unreadable = {"mouse", "power"}
INVARIANT HeardRight
