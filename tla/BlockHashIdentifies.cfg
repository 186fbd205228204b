SPECIFICATION FaultySpec
CONSTANTS
    StateRoots = {r1, r2}
    Timestamps = {0}
    TransactionLists <- MCTransactionLists
    MaxHeight = 2
    MaxFaults = 1
INVARIANTS
    BlockHashIdentifies
