CONSTANTS
    Scanners = {collector, scan}
    HashedBytes = 3
    HeadBytes = 2
    TailBytes = 3
    MaxRead = 3
    MaxSize = 7
    MaxRewrites = 1
SPECIFICATION Spec
SYMMETRY ScannerSymmetry
CONSTRAINT Bounded
INVARIANTS
    OffsetIsCovered
    PartialFitsOffset
    IncrementsAreIdempotent
