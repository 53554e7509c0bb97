SPECIFICATION FairSpec
CONSTANTS
  p = p
  q = q
  net = net
  app = app
  site = site
  None = None
  Plugins = {p, q}
  Hooks = {p, q}
  DNS = {p}
  Monitors = {q}
  Priority <- TwoGroups
  Resources = {net, app, site}
  OwnerOf <- Owners
  PrioOf <- Groups
  Planned = {net, site}
  Verify = TRUE
  SkipApply = FALSE
  Multilock = TRUE
  Faults = {"call", "apply", "lost", "race"}
CHECK_DEADLOCK FALSE
INVARIANTS AllRecorded StagesInOrder
PROPERTY Returns
