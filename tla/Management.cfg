SPECIFICATION Spec
CONSTANTS
    r1 = r1  r2 = r2  t1 = t1  t2 = t2  t3 = t3  t4 = t4  f1 = f1  f2 = f2  f3 = f3
    Requests <- TwoRequests
    Addresses = {a1, a2}
    Paths = {default, path}
    Default = default
    Console = console
    Tokens <- FourTokens
    Providers = {p}
    Files <- ThreeFiles
    None = None
    Faults = {"save", "remove"}
    MaxRequests = 3
SYMMETRY Symmetric
INVARIANTS UploadsKept RetiredTokens ListensWhereConfigured
CHECK_DEADLOCK FALSE
