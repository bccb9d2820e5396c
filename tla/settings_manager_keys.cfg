SPECIFICATION FairSpec
CONSTANTS
  Files <- MCFiles
  Locations <- MCLocations
  Location <- MCLocation
  Priority <- MCPriority
  Whitelist = {}
  Schemas = {"power", "mouse"}
  Unreadable = {"mouse", "power"}
INVARIANTS TypeOK FollowsKey InOrder
PROPERTY KeyIsObeyed
