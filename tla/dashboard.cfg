SPECIFICATION FairSpec
CONSTANTS
    Ports = {p1, p2}
    Total = Total
    None = None
    Sessions = {s1}
    ReadsFail = TRUE
INVARIANT TypeOK
PROPERTIES RefreshShowsAll CatchesUp PointsArrive
