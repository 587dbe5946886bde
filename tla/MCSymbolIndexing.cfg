SPECIFICATION UnitsSpec
CONSTANTS
    Usr <- MCUsr
    Parent <- MCParent
    BasesOf <- MCBasesOf
    None = None
    Path <- MCPath
    Text <- MCText
    Listed <- MCListed
    Mains <- MCMains
    NbUnits = 3
    MaxReports = 3
INVARIANTS
    IdNamesSymbol
    ReferencesResolve
    BasesOfFirstUnit
    IncludesAreRight
\* the scan is over after the last unit
CHECK_DEADLOCK FALSE
