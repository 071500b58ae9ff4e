SPECIFICATION FairSpec
CONSTANTS
  Ports = {p1}
  None = None
  Clients = {c1,c2}
  SoapThreads = {soap}
  WebThreads = {}
  ReaderThreads = {}
  CleanerThreads = {cleaner}
  TTL = 1
  DefaultLease = 1
  MaxLease = 1
  LeaseRequests <- NoLeaseAsked
  WebLeases <- FormLeases
  SecureMode = TRUE
  Retries = 1
  ReadsFail = TRUE
  WritesFail = TRUE
  Restarts = TRUE
  Overlap = FALSE
  MaxCall = 1
  MaxLate = 1
  MaxTime = 3
INVARIANT IInv
PROPERTIES LeaseFromRequest StepsRunOut JobsEnd
