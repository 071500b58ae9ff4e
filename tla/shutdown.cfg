SPECIFICATION FairSpec
CONSTANTS
    Servers = {"direct", "gunicorn"}
    Signals <- ServiceSignals
    MaxCauses = 1
    Stun = {TRUE, FALSE}
    Retries = 2
INVARIANTS TypeOK ByebyeLast
PROPERTIES Ends ComesUp
CHECK_DEADLOCK FALSE
