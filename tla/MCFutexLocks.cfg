SPECIFICATION Spec
CONSTANTS
    t1 = t1
    t2 = t2
    t3 = t3
    t4 = t4
    Threads <- MCThreads
    Programs <- MCPrograms
    U32Size = 16
    MASK = 3
INVARIANTS
    TypeOK
    MutexWakeupOwed
    ReaderCountExact
    ReadersWaitBehindWriters
    OnceInitialisesOnce
    OncePoisonPropagates
    ParkStartsUnparked
PROPERTIES
    MutexIsLock
    RwLockIsLock
    AllFinish
