SPECIFICATION Spec
CONSTANTS
    Ports = {p1, p2}
    Total = Total
    None = None
    Sessions = {s1}
    ReadsFail = FALSE
INVARIANT ChartOfRow
