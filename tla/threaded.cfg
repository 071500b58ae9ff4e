SPECIFICATION Spec
CONSTANTS
  Ports = {p1}
  None = None
  Clients = {c1,c2}
  SoapThreads = {soap}
  WebThreads = {}
  ReaderThreads = {}
  CleanerThreads = {cleaner}
  TTL = 1
  DefaultLease = 3
  MaxLease = 3
  LeaseRequests <- NoLeaseAsked
  WebLeases <- FormLeases
  SecureMode = TRUE
  Retries = 0
  ReadsFail = FALSE
  WritesFail = FALSE
  Restarts = FALSE
  Overlap = TRUE
  MaxCall = 1
  MaxLate = 0
  MaxTime = 8
SYMMETRY SymmClients
INVARIANTS CacheBounded FreshBasis OwnerOrRace ExpiredOrRace CleanedUp CleanedInTime IInv
PROPERTY WindowedTable
