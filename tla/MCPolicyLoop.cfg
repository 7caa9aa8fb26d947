SPECIFICATION FairSpec
CONSTANTS
    Agents = {a1, a2}
    Loads = {0, 2}
    Contents <- FileContents
    Broken = Broken
    Incomplete = Incomplete
    Missing = Missing
    MaxTime = 3
INVARIANT KeepsPolicies
PROPERTIES
    UnmissedFileIsLoaded
    SettlesInMode
