SPECIFICATION FairSessionTurnSpec
CONSTANTS
    s1 = s1
    u1 = u1
    u2 = u2
    Free = Free
    Sessions = {s1}
    Users = {u1, u2}
    Turns = {1, 2}
    Actors = {}
    SessionOf <- ToTheChat
    OwnerOf <- ItsOwner
    MaxTotal = 2
    MaxPerUser = 2
    MaxElsewhere = 1
    MaxDisturbed = 1
    MaxCrashes = 0
CHECK_DEADLOCK FALSE
INVARIANTS
    AdmissionExact
PROPERTIES
    NeverLockedOut
    StopFreesTheSession
