SPECIFICATION Spec
CONSTANTS
    d0 = d0
    d1 = d1
    d2 = d2
    a = a
    b = b
    Name <- Components
    Dev <- Volumes
    RootDev = d0
    Bad = {}
    NoDev = NoDev
    MaxPath = 2
    MaxFrames = 2
    MaxDirs = 6
    File = {1}
SYMMETRY Symmetric
INVARIANTS
    TableMatchesVolumes
    OpenFilesPinVolumes
    ResolveAgreesWithWalk
PROPERTY UmountKeepsWorkingDirs
