SPECIFICATION FairSpec
CONSTANTS
    Job = {j1}
    Agent = {a1, a2}
    Nobody = Nobody
    MaxAttempts = 2
    JobTTL = 2
    ClaimLease = 1
    SweepInterval = 1
    MaxTime = 5
    Unreliable = {TRUE, FALSE}
INVARIANTS PrintsWithinCap NoReprint 
PROPERTIES JobSettles FinalWhenTimely ImplementsDelivery
