SPECIFICATION FairSpec
CONSTANTS
    source = source
    tests = tests
    everywhere = everywhere
    Updates <- MCUpdates
    Patterns <- MCPatterns
    Matching <- MCMatching
    Paths <- MCPaths
    DeepMerge <- MergeEntries
    Lives <- MCLives
INVARIANTS
    TypeOK
    FirstThatRuns
    InstallsLast
    CleanEnd
    NoOrphan
    LatestSays
PROPERTIES
    SelectionEnds
    
    SettingsArrive
CHECK_DEADLOCK FALSE
