SPECIFICATION FairSpec
CONSTANTS
    Ports = {2}
    Others = {1}
    First <- Least
    None = None
    Requests = {request}
    Cleanup = cleanup
    TTL = 1
    Interval = 0
    GostFails = TRUE
    IgdFails = TRUE
    IgdRestarts = TRUE
    GostRestarts = TRUE
    MaxCall = 1
    MaxRound = 1
INVARIANTS TypeOK IInv
PROPERTIES NothingOldReturns Mirrored
