SPECIFICATION MCShellSpec
CONSTANTS
    File = {"a", "b", "c"}
    Main = "a"
    Missing = Missing
    SectionName = {"global", "source", "nosuch", "other"}
    Tag <- MCTag
    Required <- MCRequired
    Macro = {"_m", "_f"}
    Alias <- MCAlias
    MaxDepth = 3
    Glob <- MCGlob
    PathSpec <- MCPathSpec
    DefaultType = "pndir"
    Guess <- MCGuess
    Inputs <- MCInputs
    BadDirs = {"bad"}
    Kinds <- MCKinds
    Command <- MCCommand
    GlobalAlias <- MCGlobalAlias
    LocalAlias <- MCLocalAlias
    Abbreviates <- MCAbbreviates
    External <- MCExternal
    Param <- MCParam
    Available <- MCAvailable
    Installed <- MCInstalled
    NameOf <- MCNameOf
    Fits <- MCFits
    Provides <- MCProvides
    Lists <- MCLists
    Typeable <- MCTypeable
    MaxLines = 2
    MaxExpansions = 4
INVARIANTS
    ConfAsWritten
    SetUpAsAsked
    LinesAsTyped
