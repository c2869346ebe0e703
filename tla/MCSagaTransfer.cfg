SPECIFICATION FairSpec
CONSTANTS
    f1 = f1
    f2 = f2
    p1 = p1
    p2 = p2
    Fetches = {f1, f2}
    Processes = {p1, p2}
    ProcessOf <- Apart
    Inodes = {i1, i2, i3}
    NoFile = NoFile
    MaxVersions = 3
INVARIANTS
    TypeOK
PROPERTIES
    ImplementsCopy
    InstallsFresh
    FetchReturns
