SPECIFICATION Spec
CONSTANTS
    t1 = t1
    t2 = t2
    t3 = t3
    i = i
    j = j
    a = a
    b = b
    c = c
    Threads <- MCThreads
    Queries <- MCQueries
    NoQuery = NoQuery
    Values <- MCValues
    Worlds <- RecolourWorlds
INVARIANT
    TaskHasNoNode
