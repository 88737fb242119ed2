SPECIFICATION ExecutionSpec
CONSTANTS
    q1 = q1
    c1 = c1
    n1 = n1
    r1 = r1
    r2 = r2
    r3 = r3
    None = None
    Proposals = {c1, n1}
    DeviceQuery = {}
    DeviceControl = {c1}
    Runs = {r1, r2}
    Faults = {"cancel", "database", "crash"}
SYMMETRY Interchangeable
CHECK_DEADLOCK FALSE
INVARIANTS
    OneOwner
    OncePerAuthorisation
    ApprovedIsUntouched
    AbandonedThreadIsFlagged
    ExecutedIsTrue
