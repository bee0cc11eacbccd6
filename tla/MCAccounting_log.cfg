CONSTANTS
    p1 = p1
    p2 = p2
    p3 = p3
    p4 = p4
    n1 = n1
    n2 = n2
    n3 = n3
    Proc = {p1, p2, p3}
    Program = {n1, n2}
    NameOf <- MCNameOf
    SAMPLE_SPACE_SIZE = 3
    LEN_INIT_VECTOR = 16
    ZeroedHeap = TRUE
    MaxListed = 3
    MaxPackets = 2
    MaxLogged = 3
SPECIFICATION Spec
INVARIANTS
    LogNotInflated
