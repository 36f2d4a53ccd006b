SPECIFICATION Spec
CONSTANTS
    p1 = p1  p2 = p2  s1 = s1  s2 = s2  a1 = a1  a2 = a2  o1 = o1  o2 = o2  o3 = o3  r1 = r1
    Providers <- TwoProviders
    Settings <- TwoSettings
    Address <- TwoAddresses
    Objects <- ThreeObjects
    Readers <- OneReader
    None = None
    All = All
    Faults = {"save"}
SYMMETRY Symmetric
INVARIANT SettingsAgree
CHECK_DEADLOCK FALSE
