SPECIFICATION Spec
CONSTANTS
    Keys = {1, 2}
    Codes = {c}
    NoCode = nocode
    Slots = {0}
    Words = {1}
    Addresses <- MCAddresses
    Amounts = {1}
    MaxBalance = 2
    MaxNonce = 1
    MaxEdits = 3
INVARIANTS
    NothingShared
PROPERTIES
    ValueSemantics
