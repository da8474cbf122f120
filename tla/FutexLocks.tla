----------------------------- MODULE FutexLocks -----------------------------
(***************************************************************************)
(* Threads that use std's futex locks.  Every thread runs the operations   *)
(* its program lists, one after the other; Init chooses the programs, so   *)
(* one specification covers each lock on its own and the condition         *)
(* variable together with its mutex.                                       *)
(*                                                                         *)
(* An operation is what the documentation of the lock tells its users to   *)
(* do: lock and unlock; wait on the condition variable in a loop, with the *)
(* mutex held, until an item is there; park in a loop until a gift is      *)
(* there.                                                                  *)
(***************************************************************************)
EXTENDS FutexCondvar, FutexRwLock, FutexOnce, FutexParker

CONSTANT Programs   \* what may run: the operations of every thread (ops),
                    \* whether the platform's futex_wake tells (tells) and
                    \* how many spurious failures may happen (glitches)

ParkOps == {"park", "park_timeout"}

Ops == {"lock", "try_lock", "consume", "consume_timeout", "produce_one", "produce_all",
        "read", "try_read", "write", "try_write", "call_once", "call_once_force",
        "unpark"} \union ParkOps

(* The Parker belongs to one thread, and only that one parks on it.         *)
ASSUME ProgramsAssumption ==
    \A p \in Programs :
        /\ p.ops \in [Threads -> Seq(Ops)] /\ p.tells \in BOOLEAN /\ p.glitches \in Nat
        /\ \A t, u \in Threads :
              \A i \in 1 .. Len(p.ops[t]), j \in 1 .. Len(p.ops[u]) :
                 p.ops[t][i] \in ParkOps /\ p.ops[u][j] \in ParkOps => t = u

VARIABLES
    todo,     \* todo[t]: the operations thread t has still to start
    items,    \* guarded by the mutex: what the condition variable is about
    gifts     \* what an unparking thread leaves for the parked one

clientVars == <<items, gifts>>
lockVars   == <<mutex, condvar, rwVars, onceVars, parker>>
vars       == <<threadVars, lockVars, clientVars, todo>>

Init ==
    /\ \E p \in Programs : todo = p.ops /\ tells = p.tells /\ glitches = p.glitches
    /\ pc = [t \in Threads |-> "idle"]
    /\ loc = [t \in Threads |-> Idle]
    /\ asleep = [t \in Threads |-> Awake]
    /\ mutex = UNLOCKED /\ condvar = 0
    /\ rwlock = UnlockedWord /\ writer_notify = 0
    /\ once = INCOMPLETE /\ inits = 0 /\ failed = 0
    /\ parker = EMPTY
    /\ items = 0 /\ gifts = 0

-----------------------------------------------------------------------------
(* The users of the locks *)

(* Where an operation starts, and where the first call it makes returns. *)
Entry(op) ==
    CASE op = "lock"     -> <<"mx_lock", "cs">>
      [] op = "try_lock" -> <<"mx_try", "cs">>
      [] op \in {"consume", "consume_timeout"} -> <<"mx_lock", "cv_check">>
      [] op \in {"produce_one", "produce_all"} -> <<"mx_lock", "cv_produce">>
      [] op = "read"      -> <<"rd_read", "idle">>
      [] op = "try_read"  -> <<"rd_try", "idle">>
      [] op = "write"     -> <<"wr_write", "idle">>
      [] op = "try_write" -> <<"wr_try", "idle">>
      [] op \in {"call_once", "call_once_force"} -> <<"on_load", "idle">>
      [] op \in {"park", "park_timeout"} -> <<"pk_check", "idle">>
      [] op = "unpark"    -> <<"pk_give", "idle">>

StartOp(t) ==
    /\ pc[t] = "idle" /\ todo[t] # << >>
    /\ todo' = [todo EXCEPT ![t] = Tail(@)]
    /\ Goto(t, Entry(Head(todo[t]))[1])
    /\ loc' = [loc EXCEPT ![t] = FreshLocals(Head(todo[t]), Entry(Head(todo[t]))[2])]
    /\ UNCHANGED <<asleep, glitches, lockVars, clientVars>>

(* Unlocks the mutex and goes on to next. *)
CallUnlock(t, next) ==
    /\ Goto(t, "mx_unlock")
    /\ loc' = [loc EXCEPT ![t].k = next]
    /\ UNCHANGED <<asleep, glitches, lockVars, todo>>

LeaveCriticalSection(t) ==
    /\ At(t, "cs")
    /\ CallUnlock(t, "idle")
    /\ UNCHANGED clientVars

(* while items == 0 { guard = cvar.wait(guard) }, or until wait_timeout     *)
(* reports that it timed out.                                               *)
CheckItems(t) ==
    /\ At(t, "cv_check")
    /\ IF items = 0 /\ loc[t].ok
       THEN /\ Goto(t, "cv_wait")
            /\ UNCHANGED <<loc, asleep, glitches, lockVars, clientVars, todo>>
       ELSE /\ items' = IF items > 0 THEN items - 1 ELSE 0
            /\ CallUnlock(t, "idle")
            /\ UNCHANGED gifts

(* One item and notify_one, or one for every consumer and notify_all. *)
Produce(t) ==
    /\ At(t, "cv_produce")
    /\ items' = items + (IF loc[t].op = "produce_all" THEN Cardinality(Threads) - 1 ELSE 1)
    /\ CallUnlock(t, "cv_notify")
    /\ UNCHANGED gifts

(* while gifts == 0 { park() } *)
CheckGift(t) ==
    /\ At(t, "pk_check")
    /\ IF gifts = 0
       THEN Goto(t, "pk_park") /\ UNCHANGED <<loc, gifts>>
       ELSE Finish(t) /\ gifts' = gifts - 1
    /\ UNCHANGED <<asleep, glitches, lockVars, todo, items>>

Give(t) ==
    /\ At(t, "pk_give")
    /\ gifts' = gifts + 1
    /\ Goto(t, "pk_unpark")
    /\ UNCHANGED <<loc, asleep, glitches, lockVars, todo, items>>

-----------------------------------------------------------------------------
CondvarStep(t) ==
    \/ CondvarLoad(t)
    \/ CondvarSleep(t, loc[t].op = "consume_timeout")
    \/ CondvarNotify(t)
    \/ CondvarWake(t, loc[t].op = "produce_all")

ParkerStep(t) ==
    \/ Park(t) \/ Unpark(t) \/ UnparkWake(t)
    \/ ParkWait(t, loc[t].op = "park_timeout")
    \/ loc[t].op = "park" /\ ParkWoken(t)
    \/ loc[t].op = "park_timeout" /\ ParkTimeoutWoken(t)

(* What thread t does by itself. *)
ThreadStep(t) ==
    \/ StartOp(t) \/ LeaveCriticalSection(t) \/ CheckItems(t) \/ Produce(t)
    \/ CheckGift(t) \/ Give(t)
    \/ /\ MutexStep(t)
       /\ UNCHANGED <<condvar, rwVars, onceVars, parker, clientVars, todo>>
    \/ /\ CondvarStep(t)
       /\ UNCHANGED <<rwVars, onceVars, parker, clientVars, todo>>
    \/ /\ RwLockStep(t)
       /\ UNCHANGED <<mutex, condvar, onceVars, parker, clientVars, todo>>
    \/ /\ OnceStep(t, loc[t].op = "call_once_force")
       /\ UNCHANGED <<mutex, condvar, rwVars, parker, clientVars, todo>>
    \/ /\ ParkerStep(t)
       /\ UNCHANGED <<mutex, condvar, rwVars, onceVars, clientVars, todo>>

(* What the kernel does to a thread that sleeps. *)
KernelStep(t) ==
    /\ \/ TimedOut(t) /\ UNCHANGED lockVars
       \/ WokenSpuriously(t) /\ UNCHANGED lockVars
       \/ MutexInterrupted(t) /\ UNCHANGED <<condvar, rwVars, onceVars, parker>>
       \/ CondvarInterrupted(t) /\ UNCHANGED <<rwVars, onceVars, parker>>
       \/ RwLockInterrupted(t) /\ UNCHANGED <<mutex, condvar, onceVars, parker>>
       \/ OnceInterrupted(t) /\ UNCHANGED <<mutex, condvar, rwVars, parker>>
       \/ ParkInterrupted(t) /\ UNCHANGED <<mutex, condvar, rwVars, onceVars>>
    /\ UNCHANGED <<clientVars, todo>>

AllDone == \A t \in Threads : pc[t] = "idle" /\ todo[t] = << >>

(* The threads have ended. *)
Ended == AllDone /\ UNCHANGED vars

Next == (\E t \in Threads : ThreadStep(t) \/ KernelStep(t)) \/ Ended

(* Every thread that can take a step of its own is scheduled, and a timeout *)
(* expires; neither a signal nor a spurious return is ever owed to a        *)
(* sleeper.                                                                 *)
Spec == /\ Init /\ [][Next]_vars
        /\ \A t \in Threads :
              /\ WF_vars(ThreadStep(t))
              /\ WF_vars(TimedOut(t) /\ UNCHANGED <<lockVars, clientVars, todo>>)

-----------------------------------------------------------------------------
(* Properties *)

(* The threads between the step that takes a lock and the one that gives it *)
(* back.                                                                    *)
InMutex  == {"cs", "cv_check", "cv_produce", "cv_wait", "mx_unlock"}
MutexHolders == {t \in Threads : pc[t] \in InMutex}
Readers      == {t \in Threads : pc[t] = "rd_unlock"}
Writers      == {t \in Threads : pc[t] = "wr_unlock"}

(* The words hold values the code knows, and a thread sleeps on the word    *)
(* its operation waits on.                                                  *)
TypeOK ==
    /\ mutex \in {UNLOCKED, LOCKED, CONTENDED}
    /\ condvar \in 0 .. U32Size - 1 /\ writer_notify \in 0 .. U32Size - 1
    /\ rwlock \in [n : 0 .. MASK, rw : BOOLEAN, ww : BOOLEAN]
    /\ once \in {INCOMPLETE, POISONED, RUNNING, QUEUED, COMPLETE}
    /\ inits \in Nat /\ failed \in Nat /\ items \in Nat /\ gifts \in Nat
    /\ parker \in {EMPTY, NOTIFIED, PARKED}
    /\ glitches \in Nat
    /\ \A t \in Threads :
          asleep[t] # Awake =>
            <<asleep[t].addr, pc[t]>> \in
              {<<"mutex", "mx_respin">>, <<"condvar", "mx_lock">>, <<"rwlock", "rd_spin">>,
               <<"notify", "wr_spin">>, <<"once", "on_load">>, <<"parker", "pk_woken">>}

(* Mutex, also when Condvar::wait gives it up and takes it back, is a lock: *)
(* it never has two holders and passes from one to another only by unlock.  *)
MutexLockSpec == INSTANCE SharedLock WITH shared <- {}, exclusive <- MutexHolders
MutexIsLock == MutexLockSpec!Spec

(* RwLock is a lock: readers together or one writer alone, through          *)
(* read_contended, write_contended, the try_ calls and the wake-ups.        *)
RwLockSpec == INSTANCE SharedLock WITH shared <- Readers, exclusive <- Writers
RwLockIsLock == RwLockSpec!Spec

(* A thread that sleeps on the mutex is never forgotten: the word says      *)
(* contended, so that the holder will wake someone, or a waker is on its    *)
(* way, or a thread that has not slept yet will set the word to contended   *)
(* before it takes the lock (the comment in Mutex::unlock).                 *)
MutexWakeupOwed ==
    SleepersOn("mutex") # {} =>
        \/ mutex = CONTENDED
        \/ \E t \in Threads : \E l \in {"mx_wake", "mx_contend", "mx_wait", "mx_respin"} :
              At(t, l)

(* The counter of the RwLock word is the number of readers that hold it, or *)
(* MASK for a writer: it never runs into MASK by counting readers.          *)
ReaderCountExact ==
    IF Writers = {} THEN rwlock.n = Cardinality(Readers) /\ rwlock.n < WRITE_LOCKED
                    ELSE rwlock.n = WRITE_LOCKED

(* The debug assertion in read_unlock: a reader waits on a read-locked      *)
(* RwLock only if a writer waits too.                                       *)
ReadersWaitBehindWriters ==
    Readers # {} /\ rwlock.rw => rwlock.ww

(* Once::call: one closure runs at a time, at most one completes, and a     *)
(* caller about to return without having run its own has seen it complete.  *)
OnceInitialisesOnce ==
    /\ Cardinality({t \in Threads : pc[t] \in {"on_run", "on_drop"}}) <= 1
    /\ inits <= 1
    /\ \A t \in Threads : pc[t] = "on_loop" /\ loc[t].state = COMPLETE => inits = 1

(* Poison propagates: once a closure has failed, only a call that ignores   *)
(* the poison runs another, whatever the callers saw before.                *)
OncePoisonPropagates ==
    \A t \in Threads : At(t, "on_run") /\ loc[t].op = "call_once" => failed = 0

(* park and park_timeout rely on the word not being PARKED when they start: *)
(* fetch_sub would take it below u32::MAX and no unpark would wake them.    *)
ParkStartsUnparked == \A t \in Threads : At(t, "pk_park") => parker # PARKED

(* No wake-up is lost: every program runs to its end.  Each lock call       *)
(* returns once the locks it waits for are given back, every consumer gets  *)
(* its item and every parked thread its gift.                               *)
AllFinish == <>AllDone
=============================================================================
