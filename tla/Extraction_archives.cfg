CONSTANTS
    Members <- MCMembers
    Commands <- MCCommands
    Up <- MCUp
    Slash <- MCSlash
    Unsafe <- MCUnsafe
    Lower <- MCLower
    LinkDepth = 2
    Expansions = 6
    MaxBytes = 7
    MaxEntries = 4
    MaxMembers = 4
    NoFile = NoFile
SPECIFICATION ArchiveSpec
INVARIANT Confined
INVARIANT WithinLimits
INVARIANT ReadIsInstalled
INVARIANT PlatformsAgree
CHECK_DEADLOCK FALSE
