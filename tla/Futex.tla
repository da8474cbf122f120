-------------------------------- MODULE Futex --------------------------------
(***************************************************************************)
(* The futex system call as std uses it (library/std/src/sys/unix/futex.rs)*)
(* and the part of a thread's state that every lock built on it shares.    *)
(*                                                                         *)
(* A thread runs one lock operation at a time, one step per access to a    *)
(* shared word.  pc[t] names the next access and loc[t] holds the local    *)
(* variables of the function it is in.  A thread that sleeps in futex_wait *)
(* has its pc already at the access after the call: it takes no step until *)
(* it is awake again.                                                      *)
(*                                                                         *)
(* futex_wait loads the word before it enters the kernel and the kernel    *)
(* compares it again under its own lock.  Both tests return true when the  *)
(* word has changed, so the call is one step that either returns or sleeps.*)
(***************************************************************************)
EXTENDS Integers, FiniteSets, Sequences

CONSTANTS
    Threads,      \* the threads that use the locks
    U32Size       \* how many values a u32 counter has

ASSUME FutexAssumption == /\ IsFiniteSet(Threads)
                          /\ U32Size \in Nat /\ U32Size > 2

VARIABLES
    pc,           \* pc[t]: the next access of thread t
    loc,          \* loc[t]: the local variables of the operation t is in
    asleep,       \* asleep[t]: the futex_wait that t sleeps in, or Awake
    glitches      \* bound on the spurious failures still to come: weak
                  \* compare-exchanges that fail on an equal value, waits
                  \* that return for no reason

threadVars == <<pc, loc, asleep, glitches>>

Awake == [addr |-> "none"]

(* A sleeper remembers the word it waits on, the value it expects there and *)
(* whether it gave a timeout.                                               *)
Sleeping(addr, expected, timed) ==
    [addr |-> addr, expected |-> expected, timed |-> timed]

SleepersOn(addr) == {t \in Threads : asleep[t].addr = addr}

(* The locals at the start of an operation: state and seq are the words    *)
(* loaded last (word if it is an RwLock's), oww is other_writers_waiting,  *)
(* ok the result of the last futex_wait, op the operation and k where the  *)
(* current inner call returns.                                             *)
FreshLocals(op, k) ==
    [op |-> op, k |-> k, state |-> 0, seq |-> 0, oww |-> FALSE, ok |-> TRUE,
     word |-> [n |-> 0, rw |-> FALSE, ww |-> FALSE]]

Idle == FreshLocals("none", "idle")

(* t is awake and its next access is l. *)
At(t, l) == pc[t] = l /\ asleep[t] = Awake

Goto(t, l) == pc' = [pc EXCEPT ![t] = l]

(* An inner call returns to the place its caller gave; an operation that is *)
(* over drops its locals.                                                   *)
Continue(t) == /\ Goto(t, loc[t].k)
               /\ IF loc[t].k = "idle"
                  THEN loc' = [loc EXCEPT ![t] = Idle]
                  ELSE UNCHANGED loc

Finish(t) == /\ Goto(t, "idle")
             /\ loc' = [loc EXCEPT ![t] = Idle]

-----------------------------------------------------------------------------
(* The step of futex_wait for thread t on the word addr, whose value is     *)
(* now value; next is the access after the call.                            *)
FutexWait(t, addr, value, expected, timed, next) ==
    /\ Goto(t, next)
    /\ asleep' = IF value # expected THEN asleep
                 ELSE [asleep EXCEPT ![t] = Sleeping(addr, expected, timed)]

(* EINTR restarts the loop of futex_wait: the sleeper goes on only when the *)
(* word has changed meanwhile, and sleeps again otherwise.                  *)
Interrupted(t, addr, value) ==
    /\ asleep[t].addr = addr
    /\ value # asleep[t].expected
    /\ asleep' = [asleep EXCEPT ![t] = Awake]
    /\ UNCHANGED <<pc, loc, glitches>>

(* futex_wait with a timeout returns false when it expires. *)
TimedOut(t) ==
    /\ asleep[t] # Awake /\ asleep[t].timed
    /\ asleep' = [asleep EXCEPT ![t] = Awake]
    /\ loc' = [loc EXCEPT ![t].ok = FALSE]
    /\ UNCHANGED <<pc, glitches>>

(* The kernel may also return from a wait that nothing ended. *)
WokenSpuriously(t) ==
    /\ asleep[t] # Awake
    /\ glitches > 0
    /\ glitches' = glitches - 1
    /\ asleep' = [asleep EXCEPT ![t] = Awake]
    /\ UNCHANGED <<pc, loc>>

(* futex_wake: one sleeper, any of them, or none if there is none. *)
FutexWake(addr) ==
    IF SleepersOn(addr) = {} THEN UNCHANGED asleep
    ELSE \E u \in SleepersOn(addr) : asleep' = [asleep EXCEPT ![u] = Awake]

(* What futex_wake returns: whether it woke a thread, where the platform    *)
(* tells it (tells), and always false on FreeBSD.                           *)
FutexWoke(addr, tells) == tells /\ SleepersOn(addr) # {}

FutexWakeAll(addr) ==
    asleep' = [u \in Threads |-> IF u \in SleepersOn(addr) THEN Awake ELSE asleep[u]]

(* compare_exchange_weak may fail although the word has the expected value. *)
WeakFailure == glitches > 0 /\ glitches' = glitches - 1
=============================================================================
