SPECIFICATION Spec
CONSTANTS
    None = None
    Collector = Collector
    Sessions = {}
    Interval = 1
    MaxHistory = 6
    WindowSeconds = 5
    DisplayMax = 4
    Segments <- LongSegments
    Traffic = {1}
    MetricsFail = FALSE
    GostRestarts = FALSE
    MaxRecord = 0
    MaxTime = 8
INVARIANT WindowShown
CHECK_DEADLOCK FALSE
