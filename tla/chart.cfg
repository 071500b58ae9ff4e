SPECIFICATION Spec
CONSTANTS
    None = None
    Collector = Collector
    Sessions = {s1}
    Interval = 1
    MaxHistory = 3
    WindowSeconds = 2
    DisplayMax = 2
    Segments <- DecaySegments
    Traffic = {1}
    MetricsFail = TRUE
    GostRestarts = TRUE
    MaxRecord = 0
    MaxTime = 4
INVARIANTS TypeOK IInv Conserved HistoryKept ShownBounded ShownAscending
CHECK_DEADLOCK FALSE
