CONSTANTS
    Clients <- MCClients
    StreamLength = 3
    RunLength = 9
    Word = 4
    Mantissa = 3
    MaxExponent = 5
SPECIFICATION Spec
INVARIANTS
    CodeExact
    StackExact
    LevelsPartitioned
    BlocksExact
    SymbolsExact
    ExpressionsExact
    AggregatesExact
