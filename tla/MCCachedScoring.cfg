\* One search path, two top_k values, two slots, two cache calls (one lookup)
\* per backend.
CONSTANTS
    b1 = b1  b2 = b2  p1 = p1  s1 = s1  s2 = s2
    NoValue = NoValue
    Backends <- MCBackends
    Kinds <- MCKinds
    Params <- MCParams
    TopKs <- MCTopKs
    Paths = {s1}
    Matches <- MCMatches
    MaxEntries = 2
    TTL = 1
    MaxTime = 1
    MaxOps = 4
    ExclusiveVal = 4
SPECIFICATION Spec
INVARIANT LookupTransparent
\* The workload is bounded: every backend stops after its lookups.
CHECK_DEADLOCK FALSE
