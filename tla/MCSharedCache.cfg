\* Two slots so cleanup runs; TTL of one tick so entries expire within the
\* three clock values; two calls per backend.
CONSTANTS
    b1 = b1  b2 = b2  k1 = k1  k2 = k2  v1 = v1  big = big
    NoValue = NoValue
    Backends <- MCBackends
    Keys <- MCKeys
    Values <- MCValues
    Oversize <- MCOversize
    MaxEntries = 2
    TTL = 1
    MaxTime = 2
    MaxOps = 2
    ExecBackend = FALSE
    MaxAttach = 1
    ExclusiveVal = 4
SPECIFICATION Spec
INVARIANTS TypeOK WriterExcludes WithinCapacity FreshWritesKept
PROPERTIES CallsReturn
\* The workload is bounded: once every backend has made its calls and the
\* clock is at its bound, nothing is left to do.
CHECK_DEADLOCK FALSE
