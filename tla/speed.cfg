SPECIFICATION Spec
CONSTANTS
    Names = {n1}
    Readers = {collector, handler}
    TTL = 1
    ReadsFail = TRUE
    MaxCall = 1
    MaxChanges = 2
    Traffic = {1}
    MaxTime = 5
INVARIANTS TypeOK Conserved 
SYMMETRY ReaderSymmetry
