SPECIFICATION Spec
CONSTANTS
  Types = {"static", "service"}
  Names = {"web", "api"}
  Modes = {"normal", "destroy", "skipAll"}
  TargetLists <- SomeTargets
  SkipLists <- SomeSkips
  Rounds = 2
CHECK_DEADLOCK FALSE
INVARIANTS PlansSound GivenAppsExist DeletesTargets
