SPECIFICATION QueueSpec
CONSTANTS
    c1 = c1
    n1 = n1
    n2 = n2
    t1 = t1
    t2 = t2
    t3 = t3
    g1 = g1
    q1 = q1
    q2 = q2
    q3 = q3
    h1 = h1
    h2 = h2
    h3 = h3
    None = None
    Proposals = {n1}
    DeviceQuery = {}
    DeviceControl = {}
    Dynamic = {}
    Runs = {t1, t2, t3}
    Tickets = {t1, t2, t3}
    Requests = {q1, q2}
    Handlers = {h1, h2, h3}
    Faults = {}
    Mishaps = {"commit"}
    MaxRunning = 1
    Capacity = 2
SYMMETRY Interchangeable
CHECK_DEADLOCK FALSE
INVARIANTS
    OneTaskPerProposal
