\* Directories of up to five files, registrations and options alone and in pairs.
SPECIFICATION Spec
CONSTANTS
    NoSource = NoSource
    InitialFiles <- SomeFiles
    Names <- FileNames
    NewNames <- JustA
    Contents <- AllTexts
    NewContents <- NewTexts
    LexOrder <- NameOrder
    Times <- Timestamps
    Epoch = 19
    PadLimit = 19
    PathVersions <- InPath
    Today = 22
    MaxVersion = 23
    MaxFiles = 3
    GoSources <- Registrations
    GoLists <- Lists
    OptionLists <- Options
INVARIANTS ListIsComplete ListInOrder OptionsCommute APIsAgree
PROPERTIES ToolsDoNotClash FixKeepsOrder
