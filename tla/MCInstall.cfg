\* A run and another one that overlaps or repeats it; three files, so that a run
\* can stop between them.
SPECIFICATION FairInstallSpec
CONSTANTS
    i1 = i1
    i2 = i2
    Installers = {i1, i2}
    NFiles = 3
    MaxActs = 2
    MaxStops = 2
INVARIANTS
    InstallTypeOK
    UserTextIsKept
PROPERTIES
    ChangedIsBackedUp
    NoFileIsReplaced
    InstallCompletes
