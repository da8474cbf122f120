---------------------------- MODULE FutexCondvar ----------------------------
(***************************************************************************)
(* std's futex Condvar (library/std/src/sys/unix/locks/futex_condvar.rs)   *)
(* over the futex Mutex.  wait starts at cv_wait with the mutex held and   *)
(* goes on to cv_check, with the mutex held again; notify_one and          *)
(* notify_all start at cv_notify.                                          *)
(***************************************************************************)
EXTENDS FutexMutex

VARIABLE condvar   \* the notification counter

(* wait_optional_timeout: the counter is read before the mutex is released. *)
CondvarLoad(t) ==
    /\ At(t, "cv_wait")
    /\ loc' = [loc EXCEPT ![t].seq = condvar, ![t].k = "cv_sleep"]
    /\ Goto(t, "mx_unlock")
    /\ UNCHANGED <<asleep, glitches, mutex, condvar>>

(* The sleep, and the call of lock that follows it. *)
CondvarSleep(t, timed) ==
    /\ At(t, "cv_sleep")
    /\ FutexWait(t, "condvar", condvar, loc[t].seq, timed, "mx_lock")
    /\ loc' = [loc EXCEPT ![t].k = "cv_check", ![t].ok = TRUE]
    /\ UNCHANGED <<glitches, mutex, condvar>>

(* A slip: the notification wakes a sleeper but does not count. *)
CondvarNotifyUncounted(t) ==
    /\ At(t, "cv_notify")
    /\ Goto(t, "cv_wake")
    /\ UNCHANGED <<loc, asleep, glitches, mutex, condvar>>

CondvarNotify(t) ==
    /\ At(t, "cv_notify")
    /\ condvar' = (condvar + 1) % U32Size
    /\ Goto(t, "cv_wake")
    /\ UNCHANGED <<loc, asleep, glitches, mutex>>

CondvarWake(t, all) ==
    /\ At(t, "cv_wake")
    /\ IF all THEN FutexWakeAll("condvar") ELSE FutexWake("condvar")
    /\ Finish(t)
    /\ UNCHANGED <<glitches, mutex, condvar>>

CondvarInterrupted(t) ==
    Interrupted(t, "condvar", condvar) /\ UNCHANGED <<mutex, condvar>>
=============================================================================
