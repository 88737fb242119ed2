SPECIFICATION FairExecutionSpec
CONSTANTS
    q1 = q1
    c1 = c1
    n1 = n1
    r1 = r1
    r2 = r2
    r3 = r3
    None = None
    Proposals = {c1, q1}
    DeviceQuery = {q1}
    DeviceControl = {c1}
    Runs = {r1, r2}
    Faults = {"crash"}
CHECK_DEADLOCK FALSE
PROPERTIES
    ExecutionSettles
    ImplementsContract
