CONSTANTS
    Designs = {"bits", "strings", "vectors", "wide4", "wideF", "wideZ", "limit", "suspend"}
    Configs <- MCConfigs
    Blocks <- MCBlocks
    DuoSize = 60
    MaxChanges = 8
    PackBlock <- Packed
    UnpackBlock <- Unpacked
SPECIFICATION Spec
INVARIANTS
    Recoverable
    TimeGoesOn
    TraversalFits
    HierarchyExact
    QueryRight
    WindowAgrees
    InterruptionsExact
    CodecsInvert
