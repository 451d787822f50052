SPECIFICATION Spec
CONSTANTS
    Clients = {c1, c2}
    MaxVersion = 3
    MaxSegs = 2
    Env = {"crash"}
INVARIANTS WriterHoldsTemp SingleWriter ListedIntact NameUnique FreshVersion
PROPERTIES ImplementsVersionedFile
SYMMETRY Symmetry
CHECK_DEADLOCK FALSE
