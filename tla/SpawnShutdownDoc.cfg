SPECIFICATION WorkflowSpec
CONSTANTS
    Child = {c1, c2, c3}
    Root = Root
    Workflow = Workflow
    Shutdown = Shutdown
    Closer = {Workflow, Shutdown}
    MaxConcurrent = 1
    MaxDepth = 2
    MaxChildren = 3
    Requests = 2
    MaxTrouble = 1
    c1 = c1
    c2 = c2
    c3 = c3
    c4 = c4
CHECK_DEADLOCK FALSE
INVARIANT ShutdownAssertion
