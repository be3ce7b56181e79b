\* Two search paths with different matches, one top_k, two slots, one
\* lookup per backend.
CONSTANTS
    b1 = b1  b2 = b2  p1 = p1  s1 = s1  s2 = s2
    NoValue = NoValue
    Backends <- MCBackends
    Kinds <- MCKinds
    Params <- MCParams
    TopKs = {2}
    Paths = {s1, s2}
    Matches <- MCMatches
    MaxEntries = 2
    TTL = 1
    MaxTime = 1
    MaxOps = 4
    ExclusiveVal = 4
SPECIFICATION Spec
INVARIANT LookupTransparent
CHECK_DEADLOCK FALSE
