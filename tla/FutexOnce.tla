------------------------------ MODULE FutexOnce ------------------------------
(***************************************************************************)
(* std's futex Once (library/std/src/sys_common/once/futex.rs).  call      *)
(* starts at on_load; the closure runs at on_run and returns, panics, or   *)
(* calls OnceState::poison and returns.                                    *)
(***************************************************************************)
EXTENDS Futex

VARIABLES
    once,     \* the state word
    inits,    \* history: closures that returned and meant the Once complete
    failed    \* history: closures that panicked or poisoned the Once

onceVars == <<once, inits, failed>>

INCOMPLETE == 0
POISONED   == 1
RUNNING    == 2
QUEUED     == 3
COMPLETE   == 4

OnceLoad(t) ==
    /\ At(t, "on_load")
    /\ loc' = [loc EXCEPT ![t].state = once]
    /\ Goto(t, "on_loop")
    /\ UNCHANGED <<asleep, glitches, onceVars>>

(* A call that does not ignore the poison panics on it. *)
OncePanic(t, ignore_poisoning) ==
    /\ At(t, "on_loop")
    /\ loc[t].state = POISONED /\ ~ignore_poisoning
    /\ Finish(t)
    /\ UNCHANGED <<asleep, glitches, onceVars>>

(* A slip: a store where the compare-exchange is. *)
OnceCasAsStore(t, new, done) ==
    /\ once' = new
    /\ Goto(t, done)
    /\ UNCHANGED <<loc, asleep, glitches, inits, failed>>

(* The weak compare-exchange of the state from the value seen to new. *)
OnceCas(t, new, done) ==
    /\ \/ /\ once = loc[t].state
          /\ once' = new
          /\ Goto(t, done)
          /\ UNCHANGED <<loc, glitches>>
       \/ /\ IF once = loc[t].state THEN WeakFailure ELSE UNCHANGED glitches
          /\ loc' = [loc EXCEPT ![t].state = once]
          /\ UNCHANGED <<pc, once>>
    /\ UNCHANGED <<asleep, inits, failed>>

(* A slip: every caller may run its closure on a poisoned Once. *)
OnceClaimPoisoned(t, ignore_poisoning) ==
    /\ At(t, "on_loop")
    /\ loc[t].state \in {INCOMPLETE, POISONED}
    /\ OnceCas(t, RUNNING, "on_run")

OnceClaim(t, ignore_poisoning) ==
    /\ At(t, "on_loop")
    /\ \/ loc[t].state = INCOMPLETE
       \/ loc[t].state = POISONED /\ ignore_poisoning
    /\ OnceCas(t, RUNNING, "on_run")

OnceQueue(t) ==
    /\ At(t, "on_loop")
    /\ loc[t].state \in {RUNNING, QUEUED}
    /\ IF loc[t].state = RUNNING THEN OnceCas(t, QUEUED, "on_wait")
       ELSE Goto(t, "on_wait") /\ UNCHANGED <<loc, asleep, glitches, onceVars>>

OnceWait(t) ==
    /\ At(t, "on_wait")
    /\ FutexWait(t, "once", once, QUEUED, FALSE, "on_load")
    /\ UNCHANGED <<loc, glitches, onceVars>>

OnceReturn(t) ==
    /\ At(t, "on_loop")
    /\ loc[t].state = COMPLETE
    /\ Finish(t)
    /\ UNCHANGED <<asleep, glitches, onceVars>>

(* The closure: the guard's set_state_on_drop_to is POISONED unless it      *)
(* returns without having called poison().                                  *)
OnceRun(t) ==
    /\ At(t, "on_run")
    /\ \/ /\ loc' = [loc EXCEPT ![t].seq = COMPLETE]
          /\ inits' = inits + 1
          /\ UNCHANGED failed
       \/ /\ loc' = [loc EXCEPT ![t].seq = POISONED]
          /\ failed' = failed + 1
          /\ UNCHANGED inits
    /\ Goto(t, "on_drop")
    /\ UNCHANGED <<asleep, glitches, once>>

(* CompletionGuard::drop, on the normal and on the panicking path. *)
OnceDrop(t) ==
    /\ At(t, "on_drop")
    /\ once' = loc[t].seq
    /\ IF once = QUEUED THEN Goto(t, "on_wake") /\ UNCHANGED loc ELSE Finish(t)
    /\ UNCHANGED <<asleep, glitches, inits, failed>>

OnceWake(t) ==
    /\ At(t, "on_wake")
    /\ FutexWakeAll("once")
    /\ Finish(t)
    /\ UNCHANGED <<glitches, onceVars>>

OnceStep(t, ignore_poisoning) ==
    \/ OnceLoad(t) \/ OncePanic(t, ignore_poisoning) \/ OnceClaim(t, ignore_poisoning)
    \/ OnceQueue(t) \/ OnceWait(t) \/ OnceReturn(t) \/ OnceRun(t)
    \/ OnceDrop(t) \/ OnceWake(t)

OnceInterrupted(t) == Interrupted(t, "once", once) /\ UNCHANGED onceVars
=============================================================================
