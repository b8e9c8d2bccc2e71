SPECIFICATION Spec
CONSTANTS
    Absent = Absent
    BucketCapacity = 2
    RingCapacity = 1
    MaxId = 7
    MaxRollbacks = 2
    FlipsAboveTail = FALSE
INVARIANT
    OracleMatchesLog
