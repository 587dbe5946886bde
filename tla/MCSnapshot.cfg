SPECIFICATION Spec
CONSTANTS
    Key = {"csnap.version", "sln.path"}
    Value = {"any", "v2"}
    Path = {"h", "a", "b"}
    FreePath = {"h"}
    Wording = {"old", "new"}
    Token = {";", "=", "N", "M", "1", "i", "j"}
    Options <- MCOptions
    Solution <- MCSolution
    SymbolId = {1}
    Version = {"placeholder", "complete"}
    MaxFiles = 2
    MaxOps = 4
    MaxBusy = 1
    Null = Null
INVARIANTS
    MemoryIsStore
    ReferencesResolve
    PropertyIsLastOfTwo
PROPERTIES
    ScanCopiesAll
    FilesAreCopied
    ReadsAreCurrent
    StoreSpec
