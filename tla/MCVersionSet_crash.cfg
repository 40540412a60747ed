SPECIFICATION Spec
CONSTANTS
    NULL = NULL
    Readers = {r1}
    MaxFileNumber = 12
    MaxSequence = 2
    MaxVersions = 4
    MaxCrashes = 2
    NumLevels = 2
    MaxMemCompactLevel = 1
    Failures = {"build", "merge", "open", "rename", "manifest", "torn"}
CHECK_DEADLOCK FALSE
INVARIANT VersionsOnDisk Recoverable CountersResume InstalledIsSaved RefsMatchHolders
PROPERTY OpenCompletes
