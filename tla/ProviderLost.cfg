SPECIFICATION FairSpec
CONSTANTS
    h1 = h1  h2 = h2  f1 = f1  old = old  new = new  bad = bad
    Http <- OneHttp
    Files <- OneFile
    Contents <- TwoContents
    Unparsable = {}
    Clashing <- Never
    None = None
    Faults = {}
    MaxVersion <- TwoVersions
PROPERTY RefreshesLand
CHECK_DEADLOCK FALSE
