CONSTANTS
    Rotators = {r1, r2}
    Tokens = {t1, t2}
    Calls = {c1, c2}
    None = None
    Seeded = FALSE
    Wirings = {TRUE, FALSE}
    TTL = 1
    Leeway = 1
    CacheMax = 1
    Share = 1
    MaxTime = 2
    MaxVersion = 2
    MaxFaults = 1
SYMMETRY Alike
SPECIFICATION Spec
INVARIANTS AcceptedWasGood CacheBounded
PROPERTY BundlesAdvance
CHECK_DEADLOCK FALSE
