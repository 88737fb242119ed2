SPECIFICATION WorkflowSpec
CONSTANTS
    Child = {c1, c2, c3, c4}
    Root = Root
    Workflow = Workflow
    Shutdown = Shutdown
    Closer = {Workflow, Shutdown}
    MaxConcurrent = 2
    MaxDepth = 2
    MaxChildren = 4
    Requests = 3
    MaxTrouble = 2
    c1 = c1
    c2 = c2
    c3 = c3
    c4 = c4
CHECK_DEADLOCK FALSE
INVARIANTS
    SpawnTypeOK
    SlotsAccounted
    SlotsFollowRows
    WorkflowCleansUp
PROPERTIES
    CloseIsDeep
    LifecycleOnlyAdvances
