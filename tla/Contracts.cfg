SPECIFICATION SpecContracts
CONSTANTS
    WordBytes <- MCWordBytes
    MAX_STACK_DEPTH = 1024
    MaxMemory = 128
    Starts <- MCStarts
    GasUsed = {0}
    ReturnData <- MCStarts
    Created <- MCStarts
    Digests <- MCStarts
    SelectorBytes <- MCSelectorBytes
    Selector <- MCSelector
    Clients = {1, 2}
    Deployer = 1
    ContractAddress = 7
    Recipients = {1, 2, 259}
    Amounts <- MCAmounts
    GasLimits <- MCGasLimits
    Fares <- MCFares
    MaxCount = 3
    INITIAL_SUPPLY = 3
INVARIANTS
    TokensConserved
    DeployedVerbatim
PROPERTIES
    PromiseKept
