SPECIFICATION FairSpec
CONSTANTS
    Addresses = {a1, a2, a3, a4}
    Data = {d1, d2, d3, d4}
    Null = Null
INVARIANTS Circular NodesOwned LengthIsCount
PROPERTIES ImplementsRing CallsEnd
