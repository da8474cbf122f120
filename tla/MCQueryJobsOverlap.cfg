SPECIFICATION Spec
CONSTANTS
    t1 = t1
    t2 = t2
    t3 = t3
    t4 = t4
    a = a
    b = b
    c = c
    d = d
    Threads <- MCThreads
    Queries <- MCQueries
    NoQuery = NoQuery
    Worlds <- OverlapWorlds
INVARIANT
    HandlerFindsCycle
