SPECIFICATION Spec
CONSTANTS
    WordBytes <- MCWordBytes
    MAX_STACK_DEPTH <- MCMaxStackDepth
    MaxMemory <- MCMaxMemory
    Starts <- MCStarts
    GasUsed <- MCGasUsed
    ReturnData <- MCReturnData
    Created <- MCCreated
    Digests <- MCDigests
INVARIANTS
    TypeOK
    OnInstructions
    WordsInRange
    MemoryFits
PROPERTIES
    Metered
