----------------------------- MODULE FutexParker -----------------------------
(***************************************************************************)
(* std's futex thread parker                                               *)
(* (library/std/src/sys_common/thread_parking/futex.rs).  park and         *)
(* park_timeout start at pk_park and return to pk_check; unpark starts at  *)
(* pk_unpark.                                                              *)
(***************************************************************************)
EXTENDS Futex

VARIABLE parker

EMPTY    == 0
NOTIFIED == 1
PARKED   == U32Size - 1      \* u32::MAX

(* fetch_sub(1): NOTIFIED becomes EMPTY, EMPTY wraps to PARKED. *)
Park(t) ==
    /\ At(t, "pk_park")
    /\ parker' = (parker - 1) % U32Size
    /\ Goto(t, IF parker = NOTIFIED THEN "pk_check" ELSE "pk_wait")
    /\ UNCHANGED <<loc, asleep, glitches>>

ParkWait(t, timed) ==
    /\ At(t, "pk_wait")
    /\ FutexWait(t, "parker", parker, PARKED, timed, "pk_woken")
    /\ UNCHANGED <<loc, glitches, parker>>

(* park takes the token or waits again. *)
ParkWoken(t) ==
    /\ At(t, "pk_woken")
    /\ \/ /\ parker = NOTIFIED
          /\ parker' = EMPTY
          /\ Goto(t, "pk_check")
       \/ /\ parker # NOTIFIED
          /\ Goto(t, "pk_wait")
          /\ UNCHANGED parker
    /\ UNCHANGED <<loc, asleep, glitches>>

(* A slip: park_timeout takes the token if there is one and leaves PARKED   *)
(* behind otherwise.                                                        *)
ParkTimeoutLeavesParked(t) ==
    /\ At(t, "pk_woken")
    /\ parker' = IF parker = NOTIFIED THEN EMPTY ELSE parker
    /\ Goto(t, "pk_check")
    /\ UNCHANGED <<loc, asleep, glitches>>

(* park_timeout takes what there is and returns. *)
ParkTimeoutWoken(t) ==
    /\ At(t, "pk_woken")
    /\ parker' = EMPTY
    /\ Goto(t, "pk_check")
    /\ UNCHANGED <<loc, asleep, glitches>>

Unpark(t) ==
    /\ At(t, "pk_unpark")
    /\ parker' = NOTIFIED
    /\ IF parker = PARKED THEN Goto(t, "pk_wake") /\ UNCHANGED loc ELSE Finish(t)
    /\ UNCHANGED <<asleep, glitches>>

UnparkWake(t) ==
    /\ At(t, "pk_wake")
    /\ FutexWake("parker")
    /\ Finish(t)
    /\ UNCHANGED <<glitches, parker>>

ParkInterrupted(t) == Interrupted(t, "parker", parker) /\ UNCHANGED parker
=============================================================================
