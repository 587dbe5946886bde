SPECIFICATION PagesSpec
CONSTANTS
    SymbolId <- MCSymbolId
    Place <- MCPlace
    Input <- MCInput
    Database <- MCDatabase
    Page = 1
    Kind <- MCKind
    Tokens <- MCTokens
    Lengths <- MCLengths
    Blanks <- MCBlanks
    Includes <- MCIncludes
    Includers <- MCIncluders
    Quoted <- MCQuoted
    NoSymbol = 5
    ParentOf <- MCParentOf
    BaseRows <- MCBaseRows
    NbFlags <- MCNbFlags
    Angled <- MCAngled
    LexerState <- MCLexerState
    Fresh = "fresh"
    Lexed <- MCLexed
    MaxRows = 4
    MaxMore = 0
INVARIANTS
    LinksAreRight
    LinksAreThere
    TextKept
    SymbolPageIsRight
    NotesAreRight
    OneNamePerPlace
    AllNoted
\* a page is written once
CHECK_DEADLOCK FALSE
