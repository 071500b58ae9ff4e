SPECIFICATION Spec
CONSTANTS
  Ports = {p1,p2}
  None = None
  Clients = {c1,c2}
  SoapThreads = {soap}
  WebThreads = {web}
  ReaderThreads = {collector}
  CleanerThreads = {cleaner}
  TTL = 2
  DefaultLease = 1
  MaxLease = 2
  LeaseRequests <- LeasesAsked
  WebLeases <- FormLeases
  SecureMode = TRUE
  Retries = 0
  ReadsFail = FALSE
  WritesFail = FALSE
  Restarts = FALSE
  Overlap = FALSE
  MaxCall = 1
  MaxLate = 0
  MaxTime = 3
SYMMETRY SymmClients
INVARIANTS TypeOK CoherentWhenQuiet
PROPERTY ExactTable
