SPECIFICATION Spec
CONSTANTS
    h1 = h1  h2 = h2  f1 = f1  old = old  new = new  bad = bad
    Http <- TwoHttp
    Files <- OneFile
    Contents <- ThreeContents
    Unparsable = {bad}
    Clashing <- NewTwice
    None = None
    Faults = {"crash", "disk", "rollback", "unsafe"}
    MaxVersion <- Versions
SYMMETRY Symmetric
INVARIANTS TypeOK PublishedAccepted NoneForgotten
PROPERTIES RestartsWithLast PublicationsAreAtomic
CHECK_DEADLOCK FALSE
