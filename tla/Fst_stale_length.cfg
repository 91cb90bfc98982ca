CONSTANTS
    Designs = {"three"}
    Configs <- MCConfigs
    Blocks <- MCBlocks
    DuoSize = 60
    MaxChanges = 8
    PackBlock <- Packed
    UnpackBlock <- Unpacked
SPECIFICATION Spec
INVARIANT
    Recoverable
