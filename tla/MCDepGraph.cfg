SPECIFICATION Spec
CONSTANTS
    t1 = t1
    t2 = t2
    t3 = t3
    i = i
    j = j
    a = a
    b = b
    c = c
    Threads <- MCThreads
    Queries <- MCQueries
    NoQuery = NoQuery
    Values <- MCValues
    Worlds <- MCWorlds
INVARIANTS
    TypeOK
    EngineNeverFails
    ResultsFromScratch
    OnlyNeededRun
PROPERTIES
    EndsAsFromScratch
