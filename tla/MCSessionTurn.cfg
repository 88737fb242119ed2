SPECIFICATION SessionTurnSpec
CONSTANTS
    s1 = s1
    u1 = u1
    u2 = u2
    Free = Free
    Sessions = {s1}
    Users = {u1}
    Turns = {1, 2}
    Actors = {1}
    SessionOf <- ToTheChat
    OwnerOf <- ItsOwner
    MaxTotal = 2
    MaxPerUser = 2
    MaxElsewhere = 0
    MaxDisturbed = 1
    MaxCrashes = 1
CHECK_DEADLOCK FALSE
INVARIANTS
    SessionTurnTypeOK
    RepliesInTurn
    ArchivedIsQuiet
    NoOrphanLease
    StoppableWhileHolding
    StopIsAnswered
PROPERTIES
    FreshLeaseIsKept
