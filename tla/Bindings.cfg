SPECIFICATION Spec
CONSTANTS
    routing = routing
    catalog = catalog
    Element = {1, 2, 3}
    Identifier = {routing, catalog}
    Parent <- PageParent
    Controllers <- SomeControllers
    Actions <- SomeActions
    InitialControllers <- PageControllers
    InitialActions <- PageActions
    Targets <- PageTargets
    Stopping = {catalog}
    MaxChanges = 4
INVARIANTS
    BindingsFollow
    ClickReaches
    TargetsApart
CHECK_DEADLOCK FALSE
