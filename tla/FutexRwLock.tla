---------------------------- MODULE FutexRwLock ----------------------------
(***************************************************************************)
(* std's futex RwLock (library/std/src/sys/unix/locks/futex_rwlock.rs).    *)
(* The state word is a record of its three bit fields: n is the 30-bit     *)
(* counter (state & MASK), rw the readers-waiting bit and ww the writers-  *)
(* waiting bit.  read starts at rd_read and holds the lock at rd_unlock;   *)
(* write starts at wr_write and holds it at wr_unlock.                     *)
(***************************************************************************)
EXTENDS Futex

CONSTANT MASK    \* the value of the counter that means write locked

ASSUME RwLockAssumption == MASK \in Nat /\ MASK > 1

VARIABLES
    rwlock,          \* the state word
    writer_notify,   \* the futex that writers sleep on
    tells            \* whether this platform's futex_wake says if it woke a
                     \* thread: fixed, no step changes it

rwVars == <<rwlock, writer_notify, tells>>

WRITE_LOCKED == MASK
MAX_READERS  == MASK - 1

Word(n, rw, ww) == [n |-> n, rw |-> rw, ww |-> ww]
UnlockedWord    == Word(0, FALSE, FALSE)

(* Slips in the tests on the word: one reader counted as none, the maximum  *)
(* off by one, the readers-waiting bit ignored.                             *)
is_unlocked_or_one(s) == s.n <= 1
is_read_lockable_at_max(s) == s.n <= MAX_READERS /\ ~s.rw /\ ~s.ww
is_read_lockable_past_readers(s) == s.n < MAX_READERS /\ ~s.ww

is_unlocked(s) == s.n = 0
is_read_lockable(s) == s.n < MAX_READERS /\ ~s.rw /\ ~s.ww
has_reached_max_readers(s) == s.n = MAX_READERS

(* try_read and try_write: fetch_update repeats its compare-exchange until  *)
(* it succeeds or the condition fails, as one atomic step.                  *)
TryRead(t) ==
    /\ At(t, "rd_try")
    /\ \/ /\ is_read_lockable(rwlock)
          /\ rwlock' = [rwlock EXCEPT !.n = @ + 1]
          /\ Goto(t, "rd_unlock")
          /\ UNCHANGED loc
       \/ /\ ~is_read_lockable(rwlock)
          /\ Finish(t)
          /\ UNCHANGED rwlock
    /\ UNCHANGED <<asleep, glitches, writer_notify, tells>>

(* A slip: try_write only looks for another writer. *)
TryWriteOverReaders(t) ==
    /\ At(t, "wr_try")
    /\ rwlock.n # WRITE_LOCKED
    /\ rwlock' = [rwlock EXCEPT !.n = @ + WRITE_LOCKED]
    /\ Goto(t, "wr_unlock")
    /\ UNCHANGED <<loc, asleep, glitches, writer_notify, tells>>

TryWrite(t) ==
    /\ At(t, "wr_try")
    /\ \/ /\ is_unlocked(rwlock)
          /\ rwlock' = [rwlock EXCEPT !.n = @ + WRITE_LOCKED]
          /\ Goto(t, "wr_unlock")
          /\ UNCHANGED loc
       \/ /\ ~is_unlocked(rwlock)
          /\ Finish(t)
          /\ UNCHANGED rwlock
    /\ UNCHANGED <<asleep, glitches, writer_notify, tells>>

(* A weak compare-exchange of the state word from the local state to new:  *)
(* it succeeds and goes to done, or fails, loads the word and goes to      *)
(* again.                                                                  *)
CasWeak(t, new, done, again) ==
    \/ /\ rwlock = loc[t].word
       /\ rwlock' = new
       /\ Goto(t, done)
       /\ UNCHANGED <<loc, glitches>>
    \/ /\ IF rwlock = loc[t].word THEN WeakFailure ELSE UNCHANGED glitches
       /\ loc' = [loc EXCEPT ![t].word = rwlock]
       /\ Goto(t, again)
       /\ UNCHANGED rwlock

(* The strong one fails only if the word differs. *)
Cas(t, new, done, again) ==
    /\ UNCHANGED glitches
    /\ \/ /\ rwlock = loc[t].word
          /\ rwlock' = new
          /\ Goto(t, done)
          /\ UNCHANGED loc
       \/ /\ rwlock # loc[t].word
          /\ loc' = [loc EXCEPT ![t].word = rwlock]
          /\ Goto(t, again)
          /\ UNCHANGED rwlock

-----------------------------------------------------------------------------
(* Readers *)

(* read: the load of the word. *)
ReadLoad(t) ==
    /\ At(t, "rd_read")
    /\ loc' = [loc EXCEPT ![t].word = rwlock]
    /\ Goto(t, IF is_read_lockable(rwlock) THEN "rd_cas" ELSE "rd_spin")
    /\ UNCHANGED <<asleep, glitches, rwVars>>

(* read: the compare-exchange of the uncontended path. *)
ReadCas(t) ==
    /\ At(t, "rd_cas")
    /\ CasWeak(t, [loc[t].word EXCEPT !.n = @ + 1], "rd_unlock", "rd_spin")
    /\ UNCHANGED <<asleep, writer_notify, tells>>

(* spin_read: one load, see FutexMutex. *)
ReadSpin(t) ==
    /\ At(t, "rd_spin")
    /\ loc' = [loc EXCEPT ![t].word = rwlock]
    /\ Goto(t, "rd_loop")
    /\ UNCHANGED <<asleep, glitches, rwVars>>

(* read_contended: lock it if it can be locked. *)
ReadLock(t) ==
    /\ At(t, "rd_loop")
    /\ is_read_lockable(loc[t].word)
    /\ CasWeak(t, [loc[t].word EXCEPT !.n = @ + 1], "rd_unlock", "rd_loop")
    /\ UNCHANGED <<asleep, writer_notify, tells>>

(* read_contended: too many readers, the call panics. *)
ReadPanic(t) ==
    /\ At(t, "rd_loop")
    /\ ~is_read_lockable(loc[t].word)
    /\ has_reached_max_readers(loc[t].word)
    /\ Finish(t)
    /\ UNCHANGED <<asleep, glitches, rwVars>>

(* read_contended: the readers-waiting bit is set before the reader sleeps. *)
ReadSetWaiting(t) ==
    /\ At(t, "rd_loop")
    /\ ~is_read_lockable(loc[t].word)
    /\ ~has_reached_max_readers(loc[t].word)
    /\ IF loc[t].word.rw
       THEN Goto(t, "rd_wait") /\ UNCHANGED <<loc, glitches, rwlock>>
       ELSE Cas(t, [loc[t].word EXCEPT !.rw = TRUE], "rd_wait", "rd_loop")
    /\ UNCHANGED <<asleep, writer_notify, tells>>

ReadWait(t) ==
    /\ At(t, "rd_wait")
    /\ FutexWait(t, "rwlock", rwlock, [loc[t].word EXCEPT !.rw = TRUE], FALSE, "rd_spin")
    /\ UNCHANGED <<loc, glitches, rwVars>>

(* read_unlock: the last reader wakes a waiting writer. *)
ReadUnlock(t) ==
    /\ At(t, "rd_unlock")
    /\ rwlock' = [rwlock EXCEPT !.n = @ - 1]
    /\ IF is_unlocked(rwlock') /\ rwlock'.ww
       THEN /\ Goto(t, "rw_wake")
            /\ loc' = [loc EXCEPT ![t].word = rwlock']
       ELSE Finish(t)
    /\ UNCHANGED <<asleep, glitches, writer_notify, tells>>

-----------------------------------------------------------------------------
(* Writers *)

(* write: the uncontended compare-exchange. *)
Write(t) ==
    /\ At(t, "wr_write")
    /\ \/ /\ rwlock = UnlockedWord
          /\ rwlock' = Word(WRITE_LOCKED, FALSE, FALSE)
          /\ Goto(t, "wr_unlock")
          /\ UNCHANGED glitches
       \/ /\ IF rwlock = UnlockedWord THEN WeakFailure ELSE UNCHANGED glitches
          /\ Goto(t, "wr_spin")
          /\ UNCHANGED rwlock
    /\ UNCHANGED <<loc, asleep, writer_notify, tells>>

WriteSpin(t) ==
    /\ At(t, "wr_spin")
    /\ loc' = [loc EXCEPT ![t].word = rwlock]
    /\ Goto(t, "wr_loop")
    /\ UNCHANGED <<asleep, glitches, rwVars>>

(* write_contended: lock it if it is unlocked, whoever waits, and keep the  *)
(* writers-waiting bit if this writer has waited.                           *)
WriteLock(t) ==
    /\ At(t, "wr_loop")
    /\ is_unlocked(loc[t].word)
    /\ CasWeak(t, Word(WRITE_LOCKED, loc[t].word.rw, loc[t].word.ww \/ loc[t].oww),
               "wr_unlock", "wr_loop")
    /\ UNCHANGED <<asleep, writer_notify, tells>>

WriteSetWaiting(t) ==
    /\ At(t, "wr_loop")
    /\ ~is_unlocked(loc[t].word)
    /\ IF loc[t].word.ww
       THEN Goto(t, "wr_seq") /\ UNCHANGED <<loc, glitches, rwlock>>
       ELSE Cas(t, [loc[t].word EXCEPT !.ww = TRUE], "wr_seq", "wr_loop")
    /\ UNCHANGED <<asleep, writer_notify, tells>>

(* The notification counter is read before the word is looked at again. *)
WriteSeq(t) ==
    /\ At(t, "wr_seq")
    /\ loc' = [loc EXCEPT ![t].oww = TRUE, ![t].seq = writer_notify]
    /\ Goto(t, "wr_check")
    /\ UNCHANGED <<asleep, glitches, rwVars>>

WriteCheck(t) ==
    /\ At(t, "wr_check")
    /\ loc' = [loc EXCEPT ![t].word = rwlock]
    /\ Goto(t, IF is_unlocked(rwlock) \/ ~rwlock.ww THEN "wr_loop" ELSE "wr_wait")
    /\ UNCHANGED <<asleep, glitches, rwVars>>

WriteWait(t) ==
    /\ At(t, "wr_wait")
    /\ FutexWait(t, "notify", writer_notify, loc[t].seq, FALSE, "wr_spin")
    /\ UNCHANGED <<loc, glitches, rwVars>>

WriteUnlock(t) ==
    /\ At(t, "wr_unlock")
    /\ rwlock' = [rwlock EXCEPT !.n = @ - WRITE_LOCKED]
    /\ IF rwlock.ww \/ rwlock.rw
       THEN /\ Goto(t, "rw_wake")
            /\ loc' = [loc EXCEPT ![t].word = rwlock']
       ELSE Finish(t)
    /\ UNCHANGED <<asleep, glitches, writer_notify, tells>>

-----------------------------------------------------------------------------
(* wake_writer_or_readers, on the state the unlock left.  A strong compare- *)
(* exchange that fails never leaves the word it expected, so going back to  *)
(* the first test after the first failure is falling through to the second. *)

OnlyWriters == Word(0, FALSE, TRUE)
OnlyReaders == Word(0, TRUE, FALSE)
Both        == Word(0, TRUE, TRUE)

WakeOnlyWriters(t) ==
    /\ At(t, "rw_wake")
    /\ loc[t].word = OnlyWriters
    /\ Cas(t, UnlockedWord, "rw_bump", "rw_wake")
    /\ UNCHANGED <<asleep, writer_notify, tells>>

(* Readers wait too: they are left waiting and one writer is woken. *)
WakeWriterFirst(t) ==
    /\ At(t, "rw_wake")
    /\ loc[t].word = Both
    /\ \/ /\ rwlock = Both
          /\ rwlock' = OnlyReaders
          /\ Goto(t, "rw_bump")
          /\ UNCHANGED loc
       \/ /\ rwlock # Both
          /\ Finish(t)
          /\ UNCHANGED rwlock
    /\ UNCHANGED <<asleep, glitches, writer_notify, tells>>

WakeReaders(t) ==
    /\ At(t, "rw_wake")
    /\ loc[t].word = OnlyReaders
    /\ \/ /\ rwlock = OnlyReaders
          /\ rwlock' = UnlockedWord
          /\ Goto(t, "rw_all")
          /\ UNCHANGED loc
       \/ /\ rwlock # OnlyReaders
          /\ Finish(t)
          /\ UNCHANGED rwlock
    /\ UNCHANGED <<asleep, glitches, writer_notify, tells>>

(* The lock got locked: whoever locked it wakes the waiters. *)
WakeNobody(t) ==
    /\ At(t, "rw_wake")
    /\ loc[t].word \notin {OnlyWriters, Both, OnlyReaders}
    /\ Finish(t)
    /\ UNCHANGED <<asleep, glitches, rwVars>>

WakeAllReaders(t) ==
    /\ At(t, "rw_all")
    /\ FutexWakeAll("rwlock")
    /\ Finish(t)
    /\ UNCHANGED <<glitches, rwVars>>

(* wake_writer: the counter is incremented, then one sleeper woken. *)
WakeWriterBump(t) ==
    /\ At(t, "rw_bump")
    /\ writer_notify' = (writer_notify + 1) % U32Size
    /\ Goto(t, "rw_one")
    /\ UNCHANGED <<loc, asleep, glitches, rwlock, tells>>

(* No writer was woken and readers wait: they are woken instead. *)
WakeWriter(t) ==
    /\ At(t, "rw_one")
    /\ FutexWake("notify")
    /\ IF loc[t].word = OnlyWriters \/ FutexWoke("notify", tells)
       THEN Finish(t)
       ELSE /\ Goto(t, "rw_wake")
            /\ loc' = [loc EXCEPT ![t].word = OnlyReaders]
    /\ UNCHANGED <<glitches, rwVars>>

RwLockStep(t) ==
    \/ TryRead(t) \/ ReadLoad(t) \/ ReadCas(t) \/ ReadSpin(t) \/ ReadLock(t)
    \/ ReadPanic(t) \/ ReadSetWaiting(t) \/ ReadWait(t) \/ ReadUnlock(t)
    \/ TryWrite(t) \/ Write(t) \/ WriteSpin(t) \/ WriteLock(t) \/ WriteSetWaiting(t)
    \/ WriteSeq(t) \/ WriteCheck(t) \/ WriteWait(t) \/ WriteUnlock(t)
    \/ WakeOnlyWriters(t) \/ WakeWriterFirst(t) \/ WakeReaders(t) \/ WakeNobody(t)
    \/ WakeAllReaders(t) \/ WakeWriterBump(t) \/ WakeWriter(t)

RwLockInterrupted(t) ==
    /\ \/ Interrupted(t, "rwlock", rwlock)
       \/ Interrupted(t, "notify", writer_notify)
    /\ UNCHANGED rwVars
=============================================================================
