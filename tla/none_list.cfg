SPECIFICATION Spec
CONSTANTS
  Ports = {p1}
  None = None
  Clients = {c1}
  SoapThreads = {soap}
  WebThreads = {}
  ReaderThreads = {}
  CleanerThreads = {cleaner}
  TTL = 1
  DefaultLease = 1
  MaxLease = 1
  LeaseRequests <- NoLeaseAsked
  WebLeases <- FormLeases
  SecureMode = TRUE
  Retries = 0
  ReadsFail = FALSE
  WritesFail = FALSE
  Restarts = FALSE
  Overlap = TRUE
  MaxCall = 1
  MaxLate = 0
  MaxTime = 3
INVARIANTS CleanerSurvives
