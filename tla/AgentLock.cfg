SPECIFICATION FairSpec
CONSTANTS
    a1 = a1
    a2 = a2
    c1 = c1
    c2 = c2
    c3 = c3
    Nobody = Nobody
    Agent <- Agents
    Call <- Calls
    Duration = 1
    Timeout = 2
INVARIANTS
    ExclusiveWithinLease
    TimeoutNeedsTwoOwners
PROPERTIES
    LeaseSpec
    WaitIsGranted
