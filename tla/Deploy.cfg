SPECIFICATION Spec
CONSTANTS
    alice = alice
    bob = bob
    code1 = code1
    Keys <- MCKeys
    Codes <- MCCodes
    NoCode = NoCode
    NoTx = NoTx
    Slots <- MCSlots
    Words <- MCWords
    Txs <- DeployTxs
    Genesis <- FreshGenesis
    block_gas_limit = 8
    TxGas = 1
    ZeroByteGas = 1
    NonZeroByteGas = 2
    ComputeCosts = {1}
    SstoreGas = 2
    CreateGas = 2
    CallGas = 1
    GasRequests = {2, 8}
    Values <- MCValues
    CallTargets <- MCCallTargets
    MaxDepth = 4
INVARIANTS
    NoReplay
    CreationsPristine
    WeiConserved
PROPERTIES
    LedgerSpec
