----------------------------- MODULE SharedLock -----------------------------
(***************************************************************************)
(* What a lock promises its users: any number of shared holders or one     *)
(* exclusive holder, and nobody loses the lock but by releasing it.  A     *)
(* mutex is a lock that is never held shared.                              *)
(***************************************************************************)
CONSTANT Threads

VARIABLES
    shared,      \* the threads that hold the lock for reading
    exclusive    \* the threads that hold it for themselves

vars == <<shared, exclusive>>

Init == shared = {} /\ exclusive = {}

AcquireShared(t) ==
    /\ exclusive = {} /\ t \notin shared
    /\ shared' = shared \union {t}
    /\ UNCHANGED exclusive

AcquireExclusive(t) ==
    /\ exclusive = {} /\ shared = {}
    /\ exclusive' = {t}
    /\ UNCHANGED shared

ReleaseShared(t) ==
    /\ t \in shared
    /\ shared' = shared \ {t}
    /\ UNCHANGED exclusive

ReleaseExclusive(t) ==
    /\ exclusive = {t}
    /\ exclusive' = {}
    /\ UNCHANGED shared

Next == \E t \in Threads : \/ AcquireShared(t) \/ AcquireExclusive(t)
                           \/ ReleaseShared(t) \/ ReleaseExclusive(t)

Spec == Init /\ [][Next]_vars
=============================================================================
