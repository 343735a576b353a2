CONSTANTS
    tool = tool
    libA = libA
    libB = libB
    layout = layout
    None = None
    Files <- MCFiles
    Binaries = {tool}
    Libraries = {libB}
    LibDirs = {libA}
    Plain = {libA}
    NameOf <- MCNameOf
    Deps <- MCDeps
    Extra <- MCExtra
    MaxManifests = 3
    MaxEntries = 1
SPECIFICATION Spec
INVARIANTS RemoteAsRecorded MissingExplained OverrideSearched RequirementsShipped
PROPERTIES NeverReplaced
CHECK_DEADLOCK FALSE
