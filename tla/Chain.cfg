SPECIFICATION FaultySpec
CONSTANTS
    StateRoots = {r1, r2}
    Timestamps = {0}
    TransactionLists <- OneTransactionList
    MaxHeight = 3
    MaxFaults = 2
INVARIANTS
    ChainIntact
    HeadVouches
