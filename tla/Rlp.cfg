SPECIFICATION Spec
CONSTANTS
    STRING0 <- MCString0
    SHORT <- MCShort
    LENGTHS <- MCLengths
    MaxData = 5
    MaxEncoding = 13
    MaxDepth = 5
INVARIANTS
    RoundTrip
    Shortest
    Separable
