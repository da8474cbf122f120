----------------------------- MODULE FutexMutex -----------------------------
(***************************************************************************)
(* std's futex Mutex (library/std/src/sys/unix/locks/futex_mutex.rs).      *)
(* lock starts at mx_lock and goes on to loc[t].k with the mutex held;     *)
(* unlock starts at mx_unlock.  spin() only loads the word, and any value  *)
(* it can return is the word's value at some moment of the spinning: it is *)
(* one load.                                                               *)
(***************************************************************************)
EXTENDS Futex

VARIABLE mutex   \* 0: unlocked, 1: locked, 2: locked, others may wait

UNLOCKED  == 0
LOCKED    == 1
CONTENDED == 2

(* lock: the uncontended compare-exchange. *)
MutexLock(t) ==
    /\ At(t, "mx_lock")
    /\ \/ /\ mutex = UNLOCKED
          /\ mutex' = LOCKED
          /\ Continue(t)
       \/ /\ mutex # UNLOCKED
          /\ Goto(t, "mx_spin")
          /\ UNCHANGED <<mutex, loc>>
    /\ UNCHANGED <<asleep, glitches>>

(* try_lock: the same compare-exchange, whose failure is the result false. *)
MutexTryLock(t) ==
    /\ At(t, "mx_try")
    /\ \/ /\ mutex = UNLOCKED
          /\ mutex' = LOCKED
          /\ Continue(t)
       \/ /\ mutex # UNLOCKED
          /\ Finish(t)
          /\ UNCHANGED mutex
    /\ UNCHANGED <<asleep, glitches>>

(* The first spin of lock_contended: an unlocked mutex is tried once more   *)
(* without marking it contended.                                            *)
MutexSpin(t) ==
    /\ At(t, "mx_spin")
    /\ loc' = [loc EXCEPT ![t].state = mutex]
    /\ Goto(t, IF mutex = UNLOCKED THEN "mx_cas" ELSE "mx_contend")
    /\ UNCHANGED <<asleep, glitches, mutex>>

(* A slip: a store where the compare-exchange is. *)
MutexCasAsStore(t) ==
    /\ At(t, "mx_cas")
    /\ mutex' = LOCKED
    /\ Continue(t)
    /\ UNCHANGED <<asleep, glitches>>

MutexCas(t) ==
    /\ At(t, "mx_cas")
    /\ \/ /\ mutex = UNLOCKED
          /\ mutex' = LOCKED
          /\ Continue(t)
       \/ /\ mutex # UNLOCKED
          /\ loc' = [loc EXCEPT ![t].state = mutex]
          /\ Goto(t, "mx_contend")
          /\ UNCHANGED mutex
    /\ UNCHANGED <<asleep, glitches>>

(* The head of the loop: the word is set to CONTENDED unless it was seen    *)
(* so; the thread whose swap finds it unlocked has the lock.                *)
MutexContend(t) ==
    /\ At(t, "mx_contend")
    /\ \/ /\ loc[t].state = CONTENDED
          /\ Goto(t, "mx_wait")
          /\ UNCHANGED <<mutex, loc>>
       \/ /\ loc[t].state # CONTENDED
          /\ mutex' = CONTENDED
          /\ IF mutex = UNLOCKED THEN Continue(t)
             ELSE Goto(t, "mx_wait") /\ UNCHANGED loc
    /\ UNCHANGED <<asleep, glitches>>

MutexWait(t) ==
    /\ At(t, "mx_wait")
    /\ FutexWait(t, "mutex", mutex, CONTENDED, FALSE, "mx_respin")
    /\ UNCHANGED <<loc, glitches, mutex>>

(* A slip: a woken thread retries as a newcomer does and may leave the word *)
(* LOCKED while others sleep.                                               *)
MutexRespinAsNewcomer(t) ==
    /\ At(t, "mx_respin")
    /\ loc' = [loc EXCEPT ![t].state = mutex]
    /\ Goto(t, IF mutex = UNLOCKED THEN "mx_cas" ELSE "mx_contend")
    /\ UNCHANGED <<asleep, glitches, mutex>>

(* The spin after a wait goes back to the head of the loop, whatever it saw. *)
MutexRespin(t) ==
    /\ At(t, "mx_respin")
    /\ loc' = [loc EXCEPT ![t].state = mutex]
    /\ Goto(t, "mx_contend")
    /\ UNCHANGED <<asleep, glitches, mutex>>

MutexUnlock(t) ==
    /\ At(t, "mx_unlock")
    /\ mutex' = UNLOCKED
    /\ IF mutex = CONTENDED THEN Goto(t, "mx_wake") /\ UNCHANGED loc
                            ELSE Continue(t)
    /\ UNCHANGED <<asleep, glitches>>

MutexWake(t) ==
    /\ At(t, "mx_wake")
    /\ FutexWake("mutex")
    /\ Continue(t)
    /\ UNCHANGED <<glitches, mutex>>

MutexStep(t) ==
    \/ MutexLock(t) \/ MutexTryLock(t) \/ MutexSpin(t) \/ MutexCas(t)
    \/ MutexContend(t) \/ MutexWait(t) \/ MutexRespin(t)
    \/ MutexUnlock(t) \/ MutexWake(t)

MutexInterrupted(t) == Interrupted(t, "mutex", mutex) /\ UNCHANGED mutex
=============================================================================
