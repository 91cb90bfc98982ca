CONSTANTS
    Designs = {"big", "long", "steps"}
    Configs <- MCConfigs
    CutLength = 24
SPECIFICATION Spec
INVARIANTS
    TypesExact
    HierarchyExact
    PrefixReadable
    SelectionExact
    DirectoryExact
