SPECIFICATION ExportSpec
CONSTANTS
    Folder <- MCFolder
    NoFolder <- MCNoFolder
    Parent <- ParentPath
    Before <- MCBefore
    Rank <- MCRank
    Projects <- MCProjects
    Symbols <- MCSymbols
    WorkDirs <- MCWorkDirs
    Present <- MCPresent
    MaxFiles = 3
INVARIANTS
    FoldersAreRight
    LinksLead
    ListedFromAbove
    ThrowsForLikeNames
\* the export ends
CHECK_DEADLOCK FALSE
