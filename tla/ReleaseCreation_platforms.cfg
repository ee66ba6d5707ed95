CONSTANTS
    Absent = Absent
    Token <- MCToken
    Inputs <- MCInputs
    Extras <- MCExtras
    AssetFiles <- MCAssetFiles
    Defaults <- MCDefaults
    BaselineLibs <- MCBaselineLibs
    Hosts <- MCHosts
    Variants <- MCVariants
    Formats <- MCFormats
    MaxParts = 3
SPECIFICATION Spec
INVARIANTS
    ChosenRuns
    SelectionIsBest
    OneEntryPerThing
CHECK_DEADLOCK FALSE
