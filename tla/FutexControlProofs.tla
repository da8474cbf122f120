------------------------- MODULE FutexControlProofs -------------------------
(***************************************************************************)
(* Where the threads of FutexLocks are, for any number of threads, any     *)
(* programs and any width of the counters.                                 *)
(*                                                                         *)
(* Control says at which access a thread can be, what its local variables  *)
(* hold and where it can sleep.  It rests on no lock's protocol and is     *)
(* inductive by itself.  A step of one lock moves one thread within that   *)
(* lock's labels (StepWithin) and leaves the rest alone (Still): the       *)
(* proofs about a lock, in FutexLocksProofs, look at its own steps only.   *)
(***************************************************************************)
EXTENDS FutexLocks, FiniteSetTheorems, SequenceTheorems, TLAPS

-----------------------------------------------------------------------------
(* Where a thread can be *)

LockingLabels   == {"mx_lock", "mx_try", "mx_spin", "mx_cas", "mx_contend", "mx_wait",
                    "mx_respin"}
UnlockingLabels == {"mx_unlock", "mx_wake"}
HoldingLabels   == {"cs", "cv_check", "cv_produce"}
CondvarLabels   == {"cv_wait", "cv_sleep", "cv_notify", "cv_wake"}
MutexLabels     == LockingLabels \union UnlockingLabels \union HoldingLabels
                     \union CondvarLabels
RwLabels        == {"rd_read", "rd_try", "rd_cas", "rd_spin", "rd_loop", "rd_wait",
                    "rd_unlock", "wr_write", "wr_try", "wr_spin", "wr_loop", "wr_seq",
                    "wr_check", "wr_wait", "wr_unlock", "rw_wake", "rw_bump", "rw_one",
                    "rw_all"}
OnceLabels      == {"on_load", "on_loop", "on_wait", "on_run", "on_drop", "on_wake"}
ParkLabels      == {"pk_check", "pk_park", "pk_wait", "pk_woken"}
UnparkLabels    == {"pk_give", "pk_unpark", "pk_wake"}
ParkerLabels    == ParkLabels \union UnparkLabels
Labels          == {"idle"} \union MutexLabels \union RwLabels \union OnceLabels
                     \union ParkerLabels

Words  == [n : Int, rw : BOOLEAN, ww : BOOLEAN]
Locals == [op : Ops \union {"none"}, k : Labels, state : Int, seq : Int,
           oww : BOOLEAN, ok : BOOLEAN, word : Words]

(* The words a thread can sleep on, each with the place where it wakes up. *)
Naps == {<<"mutex", "mx_respin">>, <<"condvar", "mx_lock">>, <<"rwlock", "rd_spin">>,
         <<"notify", "wr_spin">>, <<"once", "on_load">>, <<"parker", "pk_woken">>}

(* A thread that is asleep is where the wait it sleeps in returns. *)
NapOK(t) == asleep[t] = Awake \/ <<asleep[t].addr, pc[t]>> \in Naps

(* lock returns to a place that holds the mutex, unlock to one that does not. *)
ReturnOK(t) ==
    /\ pc[t] \in LockingLabels => loc[t].k \in HoldingLabels
    /\ pc[t] \in UnlockingLabels => loc[t].k \in {"idle", "cv_sleep", "cv_notify"}

Scalars ==
    /\ mutex \in Int /\ once \in Int /\ parker \in Int /\ rwlock \in Words
    /\ condvar \in 0 .. U32Size - 1 /\ writer_notify \in 0 .. U32Size - 1
    /\ tells \in BOOLEAN /\ glitches \in Nat /\ items \in Nat /\ gifts \in Nat

Control ==
    /\ pc \in [Threads -> Labels]
    /\ loc \in [Threads -> Locals]
    /\ todo \in [Threads -> Seq(Ops)]
    /\ DOMAIN asleep = Threads /\ asleep = [t \in Threads |-> asleep[t]]
    /\ \A t \in Threads : NapOK(t) /\ ReturnOK(t)
    /\ Scalars

-----------------------------------------------------------------------------
(* Steps and what they leave alone *)

(* What a step of thread t does to the others: at most it wakes them up. *)
OthersKept(t) ==
    \A u \in Threads \ {t} : /\ pc'[u] = pc[u] /\ loc'[u] = loc[u]
                             /\ asleep'[u] \in {asleep[u], Awake}

(* The locals of t change at most, and keep their types. *)
OwnLocals(t) ==
    loc' \in [Threads -> Locals] /\ \A u \in Threads \ {t} : loc'[u] = loc[u]

(* No thread falls asleep. *)
OnlyWakes ==
    /\ asleep' = [u \in Threads |-> asleep'[u]]
    /\ \A u \in Threads : asleep'[u] \in {asleep[u], Awake}

(* Thread t falls asleep on the word addr, or nobody does. *)
MaySleep(t, addr) ==
    \/ asleep' = asleep
    \/ \E nap : nap.addr = addr /\ asleep' = [asleep EXCEPT ![t] = nap]

(* Thread t, awake, goes from one of the labels L to another or ends its    *)
(* operation, and sleeps afterwards at most on one of the words A.          *)
StepWithin(t, L, A) ==
    /\ OthersKept(t)
    /\ pc[t] \in L /\ pc'[t] \in L \union {"idle"}
    /\ asleep[t] = Awake
    /\ asleep'[t].addr \in A \union {"none"}

(* What a thread's step changes of Control: the rest follows. *)
ThreadOK(t) ==
    /\ pc' \in [Threads -> Labels] /\ loc' \in [Threads -> Locals]
    /\ asleep' = [u \in Threads |-> asleep'[u]]
    /\ NapOK(t)' /\ ReturnOK(t)'

(* The record Awake is told from every sleep by its address. *)
LEMMA AwakeAddr ==
    /\ Awake.addr = "none"
    /\ \A a, e, b : Sleeping(a, e, b).addr = a
BY DEF Awake, Sleeping

(* A step that moves t alone, and at most wakes the others, leaves where    *)
(* they are and where they return to in order.                              *)
LEMMA OthersStayOK ==
    ASSUME Control, NEW t \in Threads, OthersKept(t), ThreadOK(t)
    PROVE  /\ DOMAIN asleep' = Threads
           /\ \A u \in Threads : NapOK(u)' /\ ReturnOK(u)'
<1>1. DOMAIN asleep' = Threads
  BY DEF ThreadOK
<1>2. ASSUME NEW u \in Threads PROVE NapOK(u)' /\ ReturnOK(u)'
  <2>1. CASE u = t  BY <2>1 DEF ThreadOK
  <2>2. CASE u # t
    <3>1. pc'[u] = pc[u] /\ loc'[u] = loc[u] /\ asleep'[u] \in {asleep[u], Awake}
      BY <2>2 DEF OthersKept
    <3>2. NapOK(u) /\ ReturnOK(u)  BY DEF Control
    <3> QED  BY <3>1, <3>2 DEF NapOK, ReturnOK
  <2> QED  BY <2>1, <2>2
<1> QED  BY <1>1, <1>2

(* A step that leaves the sleepers or the locals alone. *)
LEMMA Unmoved ==
    ASSUME Control, NEW t \in Threads
    PROVE  /\ asleep' = asleep => OnlyWakes
           /\ loc' = loc => OwnLocals(t)
BY DEF Control, OnlyWakes, OwnLocals

(* A step of futex_wait: t goes on, or sleeps on the word. *)
LEMMA FutexWaitStep ==
    ASSUME Control, NEW t \in Threads, asleep[t] = Awake, NEW addr, NEW next,
           <<addr, next>> \in Naps, pc' = [pc EXCEPT ![t] = next],
           MaySleep(t, addr), OwnLocals(t),
           next \in {"mx_lock", "mx_respin"} => loc'[t].k \in HoldingLabels
    PROVE  ThreadOK(t) /\ OthersKept(t) /\ pc'[t] = next /\ asleep'[t].addr \in {addr, "none"}
<1>1. next \in Labels /\ next \notin UnlockingLabels
      /\ (next \in LockingLabels => next \in {"mx_lock", "mx_respin"})
  BY DEF Naps, Labels, MutexLabels, LockingLabels, UnlockingLabels, RwLabels, OnceLabels,
         ParkerLabels, ParkLabels
<1>2. /\ pc' \in [Threads -> Labels] /\ pc'[t] = next
      /\ \A u \in Threads \ {t} : pc'[u] = pc[u] /\ asleep'[u] = asleep[u]
      /\ asleep' = [u \in Threads |-> asleep'[u]]
      /\ asleep'[t] = Awake \/ asleep'[t].addr = addr
  BY <1>1 DEF Control, MaySleep
<1>3. NapOK(t)' /\ asleep'[t].addr \in {addr, "none"}
  BY <1>2, AwakeAddr DEF NapOK
<1>4. ReturnOK(t)'
  BY <1>1, <1>2 DEF ReturnOK
<1> QED  BY <1>2, <1>3, <1>4 DEF ThreadOK, OthersKept, OwnLocals

(* The wake-ups wake sleepers of their word and change nothing else. *)
LEMMA FutexWakeStep ==
    ASSUME Control, NEW t \in Threads, asleep[t] = Awake, NEW addr, addr # "none",
           FutexWake(addr) \/ FutexWakeAll(addr)
    PROVE  /\ OnlyWakes
           /\ \A u \in Threads : asleep'[u] # asleep[u] => asleep[u].addr = addr
           /\ asleep'[t] = Awake
<1>1. CASE FutexWake(addr)
  <2>1. CASE SleepersOn(addr) = {}
    BY <1>1, <2>1 DEF FutexWake, Control, OnlyWakes
  <2>2. CASE SleepersOn(addr) # {}
    <3>1. PICK u \in SleepersOn(addr) : asleep' = [asleep EXCEPT ![u] = Awake]
      BY <1>1, <2>2 DEF FutexWake
    <3> QED  BY <3>1, AwakeAddr DEF SleepersOn, Control, OnlyWakes
  <2> QED  BY <2>1, <2>2
<1>2. CASE FutexWakeAll(addr)
  BY <1>2, AwakeAddr DEF FutexWakeAll, SleepersOn, Control, OnlyWakes
<1> QED  BY <1>1, <1>2

(* An operation starts at an access of its lock. *)
Entries == {<<"mx_lock", "cs">>, <<"mx_try", "cs">>, <<"mx_lock", "cv_check">>,
            <<"mx_lock", "cv_produce">>, <<"rd_read", "idle">>, <<"rd_try", "idle">>,
            <<"wr_write", "idle">>, <<"wr_try", "idle">>, <<"on_load", "idle">>,
            <<"pk_check", "idle">>, <<"pk_give", "idle">>}

(* Where an operation starts and returns, case by case. *)
LEMMA EntryCases ==
    ASSUME NEW op \in Ops
    PROVE  /\ Entry(op) \in Entries
           /\ Entry(op)[1] = "pk_check" => op \in ParkOps
BY DEF Ops, ParkOps, Entry, Entries

(* Control after a step, from what the step does to its thread. *)
LEMMA ControlKept ==
    ASSUME Control, NEW t \in Threads, OthersKept(t), ThreadOK(t),
           todo' \in [Threads -> Seq(Ops)], Scalars'
    PROVE  Control'
BY OthersStayOK DEF Control, ThreadOK

(* Continue and Finish keep the types of a thread. *)
LEMMA ContinueStep ==
    ASSUME Control, NEW t \in Threads, Continue(t)
    PROVE  /\ pc' = [pc EXCEPT ![t] = loc[t].k] /\ pc' \in [Threads -> Labels]
           /\ OwnLocals(t)
           /\ pc'[t] = loc[t].k
<1>1. Idle \in Locals
  BY DEF Idle, FreshLocals, Locals, Labels, Words
<1>2. loc[t].k \in Labels
  BY DEF Control, Locals
<1> QED  BY <1>1, <1>2 DEF Continue, Goto, Control, OwnLocals

(* Finish, likewise. *)
LEMMA FinishStep ==
    ASSUME Control, NEW t \in Threads, Finish(t)
    PROVE  /\ pc' = [pc EXCEPT ![t] = "idle"] /\ pc' \in [Threads -> Labels]
           /\ OwnLocals(t)
           /\ pc'[t] = "idle" /\ loc'[t] = Idle
<1>1. Idle \in Locals
  BY DEF Idle, FreshLocals, Locals, Labels, Words
<1> QED  BY <1>1 DEF Finish, Goto, Control, Labels, OwnLocals

(* One local variable of t gets a value of its type; the others stay. *)
LEMMA SetState ==
    ASSUME Control, NEW t \in Threads, NEW x \in Int, loc' = [loc EXCEPT ![t].state = x]
    PROVE  /\ OwnLocals(t)
           /\ loc'[t].state = x /\ loc'[t].op = loc[t].op /\ loc'[t].k = loc[t].k
           /\ loc'[t].seq = loc[t].seq /\ loc'[t].word = loc[t].word
<1>1. loc \in [Threads -> Locals] /\ loc[t] \in Locals
  BY DEF Control
<1> DEFINE R == [loc[t] EXCEPT !.state = x]
<1>2. /\ R \in Locals /\ R.state = x
      /\ R.op = loc[t].op /\ R.k = loc[t].k /\ R.seq = loc[t].seq /\ R.word = loc[t].word
  BY <1>1 DEF Locals
<1>3. loc' = [loc EXCEPT ![t] = R]
  OBVIOUS
<1> HIDE DEF R
<1> QED  BY <1>1, <1>2, <1>3 DEF OwnLocals

(* The same for the sequence number a thread remembers. *)
LEMMA SetSeq ==
    ASSUME Control, NEW t \in Threads, NEW x \in Int, loc' = [loc EXCEPT ![t].seq = x]
    PROVE  /\ OwnLocals(t)
           /\ loc'[t].seq = x /\ loc'[t].op = loc[t].op /\ loc'[t].k = loc[t].k
           /\ loc'[t].state = loc[t].state /\ loc'[t].word = loc[t].word
<1>1. loc \in [Threads -> Locals] /\ loc[t] \in Locals
  BY DEF Control
<1> DEFINE R == [loc[t] EXCEPT !.seq = x]
<1>2. /\ R \in Locals /\ R.seq = x
      /\ R.op = loc[t].op /\ R.k = loc[t].k /\ R.state = loc[t].state /\ R.word = loc[t].word
  BY <1>1 DEF Locals
<1>3. loc' = [loc EXCEPT ![t] = R]
  OBVIOUS
<1> HIDE DEF R
<1> QED  BY <1>1, <1>2, <1>3 DEF OwnLocals

(* The same for the word of the RwLock it saw. *)
LEMMA SetWord ==
    ASSUME Control, NEW t \in Threads, NEW x \in Words, loc' = [loc EXCEPT ![t].word = x]
    PROVE  /\ OwnLocals(t)
           /\ loc'[t].word = x /\ loc'[t].op = loc[t].op /\ loc'[t].k = loc[t].k
           /\ loc'[t].state = loc[t].state /\ loc'[t].seq = loc[t].seq
<1>1. loc \in [Threads -> Locals] /\ loc[t] \in Locals
  BY DEF Control
<1> DEFINE R == [loc[t] EXCEPT !.word = x]
<1>2. /\ R \in Locals /\ R.word = x
      /\ R.op = loc[t].op /\ R.k = loc[t].k /\ R.state = loc[t].state /\ R.seq = loc[t].seq
  BY <1>1 DEF Locals
<1>3. loc' = [loc EXCEPT ![t] = R]
  OBVIOUS
<1> HIDE DEF R
<1> QED  BY <1>1, <1>2, <1>3 DEF OwnLocals

(* The same for the place it returns to. *)
LEMMA SetReturn ==
    ASSUME Control, NEW t \in Threads, NEW x \in Labels, loc' = [loc EXCEPT ![t].k = x]
    PROVE  /\ OwnLocals(t)
           /\ loc'[t].k = x /\ loc'[t].op = loc[t].op /\ loc'[t].state = loc[t].state
           /\ loc'[t].seq = loc[t].seq /\ loc'[t].word = loc[t].word
<1>1. loc \in [Threads -> Locals] /\ loc[t] \in Locals
  BY DEF Control
<1> DEFINE R == [loc[t] EXCEPT !.k = x]
<1>2. /\ R \in Locals /\ R.k = x
      /\ R.op = loc[t].op /\ R.state = loc[t].state /\ R.seq = loc[t].seq /\ R.word = loc[t].word
  BY <1>1 DEF Locals
<1>3. loc' = [loc EXCEPT ![t] = R]
  OBVIOUS
<1> HIDE DEF R
<1> QED  BY <1>1, <1>2, <1>3 DEF OwnLocals

(* Thread t, awake, goes to l: what ThreadOK and OthersKept ask follows     *)
(* from where l returns to.                                                 *)
LEMMA AwakeMove ==
    ASSUME Control, NEW t \in Threads, asleep[t] = Awake, NEW l \in Labels,
           pc' = [pc EXCEPT ![t] = l],
           OnlyWakes, OwnLocals(t),
           l \in LockingLabels => loc'[t].k \in HoldingLabels,
           l \in UnlockingLabels => loc'[t].k \in {"idle", "cv_sleep", "cv_notify"}
    PROVE  ThreadOK(t) /\ OthersKept(t) /\ pc'[t] = l /\ asleep'[t].addr = "none"
<1>1. pc' \in [Threads -> Labels] /\ pc'[t] = l /\ \A u \in Threads \ {t} : pc'[u] = pc[u]
  BY DEF Control
<1>2. asleep'[t] = Awake
  BY DEF OnlyWakes
<1>3. NapOK(t)' /\ ReturnOK(t)'
  BY <1>1, <1>2 DEF NapOK, ReturnOK
<1> QED  BY <1>1, <1>2, <1>3, AwakeAddr DEF ThreadOK, OthersKept, OwnLocals, OnlyWakes

-----------------------------------------------------------------------------
(* Control is kept by every step *)

(* Mutex: its thread stays in order, between the mutex's labels, and sleeps *)
(* on the mutex only.                                                       *)
LEMMA MutexStepControl ==
    ASSUME Control, NEW t \in Threads, MutexStep(t)
    PROVE  /\ ThreadOK(t) /\ StepWithin(t, MutexLabels, {"mutex"})
           /\ mutex' \in Int /\ UNCHANGED glitches
<1>a. /\ MutexLabels \subseteq Labels /\ LockingLabels \subseteq MutexLabels
      /\ UnlockingLabels \subseteq MutexLabels /\ HoldingLabels \subseteq MutexLabels
      /\ {"cv_sleep", "cv_notify"} \subseteq MutexLabels /\ "idle" \in Labels
  BY DEF MutexLabels, Labels, LockingLabels, UnlockingLabels, HoldingLabels, CondvarLabels
<1>b. /\ ReturnOK(t) /\ mutex \in Int /\ loc \in [Threads -> Locals]
      /\ asleep = [u \in Threads |-> asleep[u]]
  BY DEF Control, Scalars
<1> USE <1>a, <1>b DEF At, ReturnOK, LockingLabels, UnlockingLabels, StepWithin
<1>1. CASE MutexLock(t)
  <2>1. CASE mutex = UNLOCKED
    BY <1>1, <2>1, ContinueStep, AwakeMove, Unmoved DEF MutexLock, HoldingLabels, UNLOCKED, LOCKED
  <2>2. CASE mutex # UNLOCKED
    BY <1>1, <2>2, AwakeMove, Unmoved DEF MutexLock, Goto
  <2> QED  BY <2>1, <2>2
<1>2. CASE MutexTryLock(t)
  <2>1. CASE mutex = UNLOCKED
    BY <1>2, <2>1, ContinueStep, AwakeMove, Unmoved DEF MutexTryLock, HoldingLabels, UNLOCKED, LOCKED
  <2>2. CASE mutex # UNLOCKED
    BY <1>2, <2>2, FinishStep, AwakeMove, Unmoved DEF MutexTryLock
  <2> QED  BY <2>1, <2>2
<1>3. CASE MutexSpin(t)
  <2>1. OwnLocals(t) /\ loc'[t].k = loc[t].k
    BY <1>3, SetState DEF MutexSpin
  <2>2. /\ pc[t] = "mx_spin" /\ asleep[t] = Awake /\ UNCHANGED <<asleep, glitches, mutex>>
        /\ \/ pc' = [pc EXCEPT ![t] = "mx_cas"]
           \/ pc' = [pc EXCEPT ![t] = "mx_contend"]
    BY <1>3 DEF MutexSpin, Goto
  <2> QED  BY <2>1, <2>2, AwakeMove, Unmoved
<1>4. CASE MutexCas(t)
  <2>1. CASE mutex = UNLOCKED
    BY <1>4, <2>1, ContinueStep, AwakeMove, Unmoved DEF MutexCas, HoldingLabels, UNLOCKED, LOCKED
  <2>2. CASE mutex # UNLOCKED
    BY <1>4, <2>2, SetState, AwakeMove, Unmoved DEF MutexCas, Goto
  <2> QED  BY <2>1, <2>2
<1>5. CASE MutexContend(t)
  <2>1. CASE loc[t].state = CONTENDED
    BY <1>5, <2>1, AwakeMove, Unmoved DEF MutexContend, Goto
  <2>2. CASE loc[t].state # CONTENDED /\ mutex = UNLOCKED
    BY <1>5, <2>2, ContinueStep, AwakeMove, Unmoved DEF MutexContend, HoldingLabels, CONTENDED
  <2>3. CASE loc[t].state # CONTENDED /\ mutex # UNLOCKED
    BY <1>5, <2>3, AwakeMove, Unmoved DEF MutexContend, Goto, CONTENDED
  <2> QED  BY <2>1, <2>2, <2>3
<1>6. CASE MutexWait(t)
  <2>1. /\ asleep[t] = Awake /\ pc[t] = "mx_wait" /\ pc' = [pc EXCEPT ![t] = "mx_respin"]
        /\ <<"mutex", "mx_respin">> \in Naps /\ MaySleep(t, "mutex")
    BY <1>6 DEF MutexWait, FutexWait, Goto, Naps, Sleeping, MaySleep
  <2>2. loc' = loc /\ mutex' = mutex /\ glitches' = glitches
    BY <1>6 DEF MutexWait
  <2>3. OwnLocals(t) /\ loc'[t].k \in HoldingLabels
    BY <2>1, <2>2, Unmoved
  <2>4. ThreadOK(t) /\ OthersKept(t) /\ pc'[t] = "mx_respin" /\ asleep'[t].addr \in {"mutex", "none"}
    BY ONLY Control, t \in Threads, <2>1, <2>3, FutexWaitStep
  <2> QED  BY <2>1, <2>2, <2>4
<1>7. CASE MutexRespin(t)
  <2>1. OwnLocals(t) /\ loc'[t].k = loc[t].k
    BY <1>7, SetState DEF MutexRespin
  <2>2. /\ pc[t] = "mx_respin" /\ asleep[t] = Awake /\ UNCHANGED <<asleep, glitches, mutex>>
        /\ pc' = [pc EXCEPT ![t] = "mx_contend"]
    BY <1>7 DEF MutexRespin, Goto
  <2>3. ThreadOK(t) /\ OthersKept(t) /\ pc'[t] = "mx_contend" /\ asleep'[t].addr = "none"
    BY <2>1, <2>2, AwakeMove, Unmoved
  <2> QED  BY <2>2, <2>3
<1>8. CASE MutexUnlock(t)
  <2>1. CASE mutex = CONTENDED
    BY <1>8, <2>1, AwakeMove, Unmoved DEF MutexUnlock, Goto, UNLOCKED
  <2>2. CASE mutex # CONTENDED
    BY <1>8, <2>2, ContinueStep, AwakeMove, Unmoved DEF MutexUnlock, UNLOCKED
  <2> QED  BY <2>1, <2>2
<1>9. CASE MutexWake(t)
  BY <1>9, ContinueStep, FutexWakeStep, AwakeMove, Unmoved DEF MutexWake
<1> QED
  BY <1>1, <1>2, <1>3, <1>4, <1>5, <1>6, <1>7, <1>8, <1>9 DEF MutexStep

(* The users of the mutex and the condition variable. *)
CondvarUserStep(t) ==
    \/ LeaveCriticalSection(t) \/ CheckItems(t) \/ Produce(t)
    \/ CondvarStep(t) /\ UNCHANGED <<rwVars, onceVars, parker, clientVars, todo>>

(* Condvar and the code around it, which holds the mutex. *)
LEMMA CondvarStepControl ==
    ASSUME Control, NEW t \in Threads, CondvarUserStep(t)
    PROVE  /\ ThreadOK(t) /\ StepWithin(t, MutexLabels, {"condvar"})
           /\ condvar' \in 0 .. U32Size - 1 /\ items' \in Nat
           /\ UNCHANGED <<glitches, mutex, rwVars, onceVars, parker, gifts, todo>>
<1>a. /\ MutexLabels \subseteq Labels /\ {"mx_lock", "mx_unlock"} \subseteq MutexLabels
      /\ HoldingLabels \subseteq MutexLabels /\ CondvarLabels \subseteq MutexLabels
      /\ "idle" \in Labels
  BY DEF MutexLabels, Labels, LockingLabels, UnlockingLabels, HoldingLabels, CondvarLabels
<1>b. /\ ReturnOK(t) /\ loc \in [Threads -> Locals] /\ asleep = [u \in Threads |-> asleep[u]]
      /\ condvar \in 0 .. U32Size - 1 /\ items \in Nat
  BY DEF Control, Scalars
<1>c. \A k \in {"idle", "cv_notify"} : CallUnlock(t, k) /\ asleep[t] = Awake /\ pc[t] \in HoldingLabels
         => /\ ThreadOK(t) /\ StepWithin(t, MutexLabels, {"condvar"})
            /\ UNCHANGED <<glitches, mutex, condvar, rwVars, onceVars, parker, todo>>
  <2> SUFFICES ASSUME NEW k \in {"idle", "cv_notify"}, CallUnlock(t, k), asleep[t] = Awake, pc[t] \in HoldingLabels
               PROVE  /\ ThreadOK(t) /\ StepWithin(t, MutexLabels, {"condvar"})
                      /\ UNCHANGED <<glitches, mutex, condvar, rwVars, onceVars, parker, todo>>
    OBVIOUS
  <2>1. k \in Labels
    BY DEF Labels, MutexLabels, CondvarLabels
  <2>2. OwnLocals(t) /\ loc'[t].k = k
    BY <2>1, SetReturn DEF CallUnlock
  <2>3. ThreadOK(t) /\ OthersKept(t) /\ pc'[t] = "mx_unlock" /\ asleep'[t].addr = "none"
    BY <1>a, <1>b, <2>2, AwakeMove, Unmoved DEF CallUnlock, Goto, LockingLabels
  <2> QED  BY <1>a, <1>b, <2>3 DEF CallUnlock, StepWithin, lockVars
<1> DEFINE Rest == UNCHANGED <<rwVars, onceVars, parker, clientVars, todo>>
<1>1. CASE LeaveCriticalSection(t)
  BY <1>1, <1>b, <1>c DEF LeaveCriticalSection, At, HoldingLabels, clientVars
<1>2. CASE CheckItems(t)
  <2>1. CASE items = 0 /\ loc[t].ok
    BY <1>2, <2>1, <1>a, <1>b, AwakeMove, Unmoved
   
    DEF CheckItems, At, Goto, StepWithin, lockVars, clientVars, HoldingLabels, CondvarLabels,
        LockingLabels, UnlockingLabels
  <2>2. CASE ~(items = 0 /\ loc[t].ok)
    BY <1>2, <2>2, <1>b, <1>c DEF CheckItems, At, HoldingLabels
  <2> QED  BY <2>1, <2>2
<1>3. CASE Produce(t)
  <2>1. Cardinality(Threads) - 1 \in Nat
    <3>1. Cardinality(Threads) \in Nat /\ Cardinality(Threads) # 0
      BY FutexAssumption, FS_CardinalityType, FS_EmptySet
    <3> QED  BY <3>1
  <2> QED  BY <1>3, <2>1, <1>b, <1>c DEF Produce, At, HoldingLabels
<1>4. CASE CondvarLoad(t) /\ Rest
  <2>1. OwnLocals(t) /\ loc'[t].k = "cv_sleep"
    <3> DEFINE R == [loc[t] EXCEPT !.seq = condvar, !.k = "cv_sleep"]
    <3>1. loc' = [loc EXCEPT ![t] = R]
      BY <1>4 DEF CondvarLoad
    <3>2. R \in Locals /\ R.k = "cv_sleep"
      <4>1. loc[t] \in Locals /\ condvar \in Int /\ "cv_sleep" \in Labels
        BY <1>a, <1>b, FutexAssumption DEF CondvarLabels
      <4> QED  BY <4>1 DEF Locals
    <3> HIDE DEF R
    <3> QED  BY <3>1, <3>2, <1>b DEF OwnLocals
  <2>2. ThreadOK(t) /\ OthersKept(t) /\ pc'[t] = "mx_unlock" /\ asleep'[t].addr = "none"
    BY <1>4, <2>1, <1>a, <1>b, AwakeMove, Unmoved DEF CondvarLoad, At, Goto, LockingLabels
  <2> QED  BY <1>4, <1>a, <1>b, <2>2 DEF clientVars, CondvarLoad, At, StepWithin, CondvarLabels
<1>5. CASE CondvarSleep(t, loc[t].op = "consume_timeout") /\ Rest
  <2>1. /\ asleep[t] = Awake /\ pc[t] = "cv_sleep" /\ pc' = [pc EXCEPT ![t] = "mx_lock"]
        /\ <<"condvar", "mx_lock">> \in Naps /\ MaySleep(t, "condvar")
        /\ UNCHANGED <<glitches, mutex, condvar>>
    BY <1>5 DEF CondvarSleep, At, FutexWait, Goto, Naps, Sleeping, MaySleep
  <2>2. OwnLocals(t) /\ loc'[t].k \in HoldingLabels
    <3> DEFINE R == [loc[t] EXCEPT !.k = "cv_check", !.ok = TRUE]
    <3>1. loc' = [loc EXCEPT ![t] = R]
      BY <1>5 DEF CondvarSleep
    <3>2. R \in Locals /\ R.k = "cv_check"
      BY <1>a, <1>b DEF Locals, HoldingLabels
    <3> HIDE DEF R
    <3> QED  BY <3>1, <3>2, <1>b DEF HoldingLabels, OwnLocals
  <2>3. ThreadOK(t) /\ OthersKept(t) /\ pc'[t] = "mx_lock" /\ asleep'[t].addr \in {"condvar", "none"}
    BY <2>1, <2>2, FutexWaitStep, Unmoved
  <2> QED  BY <1>5, <2>1, <2>3, <1>a, <1>b DEF clientVars, StepWithin, CondvarLabels
<1>6. CASE CondvarNotify(t) /\ Rest
  <2>1. condvar' \in 0 .. U32Size - 1
    BY <1>6, <1>b, FutexAssumption DEF CondvarNotify
  <2>2. ThreadOK(t) /\ OthersKept(t) /\ pc'[t] = "cv_wake" /\ asleep'[t].addr = "none"
    BY <1>6, <1>a, <1>b, AwakeMove, Unmoved
    DEF CondvarNotify, At, Goto, CondvarLabels, LockingLabels, UnlockingLabels
  <2> QED  BY <1>6, <2>1, <2>2, <1>a, <1>b DEF clientVars, CondvarNotify, At, StepWithin, CondvarLabels
<1>7. CASE CondvarWake(t, loc[t].op = "produce_all") /\ Rest
  <2>1. FutexWake("condvar") \/ FutexWakeAll("condvar")
    BY <1>7 DEF CondvarWake
  <2>2. ThreadOK(t) /\ OthersKept(t) /\ pc'[t] = "idle" /\ asleep'[t].addr = "none"
    BY <1>7, <2>1, <1>a, <1>b, FinishStep, FutexWakeStep, AwakeMove, Unmoved
    DEF CondvarWake, At, LockingLabels, UnlockingLabels
  <2> QED  BY <1>7, <2>2, <1>a, <1>b DEF clientVars, CondvarWake, At, StepWithin, CondvarLabels
<1> QED
  BY <1>1, <1>2, <1>3, <1>4, <1>5, <1>6, <1>7 DEF CondvarUserStep, CondvarStep

(* The labels of the other locks return nowhere. *)
LEMMA OtherLabels ==
    ASSUME NEW L \in {RwLabels, OnceLabels, ParkerLabels}
    PROVE  /\ L \union {"idle"} \subseteq Labels
           /\ \A l \in L \union {"idle"} : l \notin LockingLabels /\ l \notin UnlockingLabels
BY
DEF RwLabels, OnceLabels, ParkerLabels, ParkLabels, UnparkLabels, Labels, LockingLabels,
    UnlockingLabels

(* A thread that is awake moves on inside one of these locks. *)
LEMMA OtherMove ==
    ASSUME Control, NEW t \in Threads, asleep[t] = Awake,
           NEW L \in {RwLabels, OnceLabels, ParkerLabels}, pc[t] \in L,
           NEW l \in L \union {"idle"}, pc' = [pc EXCEPT ![t] = l], OnlyWakes, OwnLocals(t),
           NEW A
    PROVE  ThreadOK(t) /\ StepWithin(t, L, A)
<1>1. l \in Labels /\ l \notin LockingLabels /\ l \notin UnlockingLabels
  BY OtherLabels
<1>2. ThreadOK(t) /\ OthersKept(t) /\ pc'[t] = l /\ asleep'[t].addr = "none"
  BY <1>1, AwakeMove
<1> QED  BY <1>2 DEF StepWithin

(* A thread starts to wait inside one of these locks. *)
LEMMA OtherWait ==
    ASSUME Control, NEW t \in Threads, asleep[t] = Awake,
           NEW L \in {RwLabels, OnceLabels, ParkerLabels}, pc[t] \in L,
           NEW next \in L, NEW addr, <<addr, next>> \in Naps, pc' = [pc EXCEPT ![t] = next],
           MaySleep(t, addr), loc' = loc, NEW A, addr \in A
    PROVE  ThreadOK(t) /\ StepWithin(t, L, A)
<1>1. next \notin {"mx_lock", "mx_respin"}
  BY OtherLabels DEF LockingLabels
<1>2. ThreadOK(t) /\ OthersKept(t) /\ pc'[t] = next /\ asleep'[t].addr \in {addr, "none"}
  BY <1>1, FutexWaitStep, Unmoved
<1> QED  BY <1>2 DEF StepWithin

(* Once. *)
LEMMA OnceStepControl ==
    ASSUME Control, NEW t \in Threads, OnceStep(t, loc[t].op = "call_once_force")
    PROVE  /\ ThreadOK(t) /\ StepWithin(t, OnceLabels, {"once"})
           /\ once' \in Int /\ glitches' \in Nat
<1>a. once \in Int /\ glitches \in Nat /\ loc[t].seq \in Int
  BY DEF Control, Scalars, Locals
<1>b. \A l \in OnceLabels \union {"idle"} :
         /\ asleep[t] = Awake /\ pc[t] \in OnceLabels /\ pc' = [pc EXCEPT ![t] = l]
         /\ OnlyWakes /\ OwnLocals(t)
         => ThreadOK(t) /\ StepWithin(t, OnceLabels, {"once"})
  BY OtherMove
<1>c. \A new \in Int, done \in OnceLabels :
         OnceCas(t, new, done) /\ At(t, "on_loop")
         => ThreadOK(t) /\ StepWithin(t, OnceLabels, {"once"}) /\ once' \in Int /\ glitches' \in Nat
  <2> SUFFICES ASSUME NEW new \in Int, NEW done \in OnceLabels, OnceCas(t, new, done), At(t, "on_loop")
               PROVE  ThreadOK(t) /\ StepWithin(t, OnceLabels, {"once"}) /\ once' \in Int /\ glitches' \in Nat
    OBVIOUS
  <2>1. CASE pc' = [pc EXCEPT ![t] = done] /\ UNCHANGED <<loc, glitches>> /\ once' = new
    BY <1>a, <1>b, <2>1, Unmoved DEF OnceCas, At, OnceLabels
  <2>2. CASE /\ glitches' \in {glitches, glitches - 1} /\ glitches' \in Nat
             /\ loc' = [loc EXCEPT ![t].state = once] /\ UNCHANGED <<pc, once>>
    <3>1. OwnLocals(t)
      BY <1>a, <2>2, SetState
    <3>2. pc' = [pc EXCEPT ![t] = "on_loop"] /\ pc[t] \in OnceLabels
      BY <2>2 DEF Control, At, OnceLabels
    <3> QED  BY <1>a, <1>b, <2>2, <3>1, <3>2, Unmoved DEF OnceCas, At, OnceLabels
  <2> QED  BY <1>a, <2>1, <2>2 DEF OnceCas, Goto, WeakFailure
<1>1. CASE OnceLoad(t)
  <2>1. OwnLocals(t)
    BY <1>1, <1>a, SetState DEF OnceLoad
  <2> QED  BY <1>1, <1>a, <1>b, <2>1, Unmoved DEF OnceLoad, At, Goto, OnceLabels, onceVars
<1>2. CASE OncePanic(t, loc[t].op = "call_once_force")
  BY <1>2, <1>a, <1>b, FinishStep, Unmoved DEF OncePanic, At, OnceLabels, onceVars
<1>3. CASE OnceClaim(t, loc[t].op = "call_once_force")
  BY <1>3, <1>c DEF OnceClaim, OnceLabels, RUNNING
<1>4. CASE OnceQueue(t)
  <2>1. CASE loc[t].state = RUNNING
    BY <1>4, <2>1, <1>c DEF OnceQueue, OnceLabels, QUEUED
  <2>2. CASE loc[t].state # RUNNING
    BY <1>4, <2>2, <1>a, <1>b, Unmoved DEF OnceQueue, At, Goto, OnceLabels, onceVars
  <2> QED  BY <2>1, <2>2
<1>5. CASE OnceWait(t)
  <2>1. /\ asleep[t] = Awake /\ pc[t] = "on_wait" /\ pc' = [pc EXCEPT ![t] = "on_load"]
        /\ <<"once", "on_load">> \in Naps /\ MaySleep(t, "once")
        /\ UNCHANGED <<loc, glitches, onceVars>>
    BY <1>5 DEF OnceWait, At, FutexWait, Goto, Naps, Sleeping, MaySleep
  <2> QED  BY <1>a, <2>1, OtherWait DEF OnceLabels, onceVars
<1>6. CASE OnceReturn(t)
  BY <1>6, <1>a, <1>b, FinishStep, Unmoved DEF OnceReturn, At, OnceLabels, onceVars
<1>7. CASE OnceRun(t)
  <2>1. OwnLocals(t)
    BY <1>7, SetSeq DEF OnceRun, COMPLETE, POISONED
  <2> QED  BY <1>7, <2>1, <1>a, <1>b, Unmoved DEF OnceRun, At, Goto, OnceLabels
<1>8. CASE OnceDrop(t)
  <2>1. CASE once = QUEUED
    BY <1>8, <2>1, <1>a, <1>b, Unmoved DEF OnceDrop, At, Goto, OnceLabels
  <2>2. CASE once # QUEUED
    BY <1>8, <2>2, <1>a, <1>b, FinishStep, Unmoved DEF OnceDrop, At, OnceLabels
  <2> QED  BY <2>1, <2>2
<1>9. CASE OnceWake(t)
  BY <1>9, <1>a, <1>b, FinishStep, FutexWakeStep DEF OnceWake, At, OnceLabels, onceVars
<1> QED
  BY <1>1, <1>2, <1>3, <1>4, <1>5, <1>6, <1>7, <1>8, <1>9 DEF OnceStep

(* The users of the parker. *)
ParkerUserStep(t) ==
    \/ CheckGift(t) \/ Give(t)
    \/ ParkerStep(t) /\ UNCHANGED <<mutex, condvar, rwVars, onceVars, clientVars, todo>>

(* Parker and the code around it. *)
LEMMA ParkerStepControl ==
    ASSUME Control, NEW t \in Threads, ParkerUserStep(t)
    PROVE  /\ ThreadOK(t) /\ StepWithin(t, ParkerLabels, {"parker"})
           /\ parker' \in Int /\ gifts' \in Nat
           /\ UNCHANGED <<glitches, mutex, condvar, rwVars, onceVars, items, todo>>
<1>a. parker \in Int /\ gifts \in Nat
  BY DEF Control, Scalars
<1>b. \A l \in ParkerLabels \union {"idle"} :
         /\ asleep[t] = Awake /\ pc[t] \in ParkerLabels /\ pc' = [pc EXCEPT ![t] = l]
         /\ OnlyWakes /\ OwnLocals(t)
         => ThreadOK(t) /\ StepWithin(t, ParkerLabels, {"parker"})
  BY OtherMove
<1>c. /\ {"pk_check", "pk_park", "pk_wait", "pk_woken"} \subseteq ParkerLabels
      /\ {"pk_give", "pk_unpark", "pk_wake"} \subseteq ParkerLabels
  BY DEF ParkerLabels, ParkLabels, UnparkLabels
<1> DEFINE Rest == UNCHANGED <<mutex, condvar, rwVars, onceVars, clientVars, todo>>
<1> USE <1>a, <1>b, <1>c DEF At, clientVars
<1>1. CASE CheckGift(t)
  <2>1. CASE gifts = 0
    BY <1>1, <2>1, Unmoved DEF CheckGift, Goto, lockVars
  <2>2. CASE gifts # 0
    BY <1>1, <2>2, FinishStep, Unmoved DEF CheckGift, lockVars
  <2> QED  BY <2>1, <2>2
<1>2. CASE Give(t)
  <2>1. OnlyWakes /\ OwnLocals(t) /\ pc' = [pc EXCEPT ![t] = "pk_unpark"]
    BY <1>2, Unmoved DEF Give, Goto
  <2>2. ThreadOK(t) /\ StepWithin(t, ParkerLabels, {"parker"})
    BY <1>2, <2>1 DEF Give
  <2> QED  BY <1>2, <2>2 DEF Give, lockVars
<1>3. CASE Park(t) /\ Rest
  <2>1. parker' \in Int
    BY <1>3, FutexAssumption DEF Park
  <2>2. CASE parker = NOTIFIED
    BY <1>3, <2>1, <2>2, Unmoved DEF Park, Goto
  <2>3. CASE parker # NOTIFIED
    BY <1>3, <2>1, <2>3, Unmoved DEF Park, Goto
  <2> QED  BY <2>2, <2>3
<1>4. CASE Unpark(t) /\ Rest
  <2>1. CASE parker = PARKED
    BY <1>4, <2>1, Unmoved DEF Unpark, Goto, NOTIFIED
  <2>2. CASE parker # PARKED
    BY <1>4, <2>2, FinishStep, Unmoved DEF Unpark, NOTIFIED
  <2> QED  BY <2>1, <2>2
<1>5. CASE UnparkWake(t) /\ Rest
  BY <1>5, FinishStep, FutexWakeStep DEF UnparkWake
<1>6. CASE ParkWait(t, loc[t].op = "park_timeout") /\ Rest
  <2>1. /\ asleep[t] = Awake /\ pc[t] = "pk_wait" /\ pc' = [pc EXCEPT ![t] = "pk_woken"]
        /\ <<"parker", "pk_woken">> \in Naps /\ MaySleep(t, "parker")
        /\ UNCHANGED <<loc, glitches, parker>>
    BY <1>6 DEF ParkWait, FutexWait, Goto, Naps, Sleeping, MaySleep
  <2> QED  BY <1>6, <2>1, OtherWait
<1>7. CASE ParkWoken(t) /\ Rest
  BY <1>7, Unmoved DEF ParkWoken, Goto, EMPTY
<1>8. CASE ParkTimeoutWoken(t) /\ Rest
  <2>1. OnlyWakes /\ OwnLocals(t) /\ pc' = [pc EXCEPT ![t] = "pk_check"]
    BY <1>8, Unmoved DEF ParkTimeoutWoken, Goto
  <2>2. ThreadOK(t) /\ StepWithin(t, ParkerLabels, {"parker"})
    BY <1>8, <2>1 DEF ParkTimeoutWoken
  <2> QED  BY <1>8, <2>2 DEF ParkTimeoutWoken, EMPTY
<1> QED
  BY <1>1, <1>2, <1>3, <1>4, <1>5, <1>6, <1>7, <1>8 DEF ParkerUserStep, ParkerStep

(* RwLock. *)
LEMMA RwLockStepControl ==
    ASSUME Control, NEW t \in Threads, RwLockStep(t)
    PROVE  /\ ThreadOK(t) /\ StepWithin(t, RwLabels, {"rwlock", "notify"})
           /\ rwlock' \in Words /\ writer_notify' \in 0 .. U32Size - 1 /\ tells' \in BOOLEAN
           /\ glitches' \in Nat
<1>a. /\ rwlock \in Words /\ loc[t].word \in Words /\ glitches \in Nat /\ tells \in BOOLEAN
      /\ writer_notify \in 0 .. U32Size - 1
  BY DEF Control, Scalars, Locals
<1>b. \A l \in RwLabels \union {"idle"} :
         /\ asleep[t] = Awake /\ pc[t] \in RwLabels /\ pc' = [pc EXCEPT ![t] = l]
         /\ OnlyWakes /\ OwnLocals(t)
         => ThreadOK(t) /\ StepWithin(t, RwLabels, {"rwlock", "notify"})
  BY OtherMove
<1>c. \A new \in Words, done, again \in RwLabels :
         CasWeak(t, new, done, again) \/ Cas(t, new, done, again)
         => \E l \in RwLabels : /\ pc' = [pc EXCEPT ![t] = l] /\ OwnLocals(t)
                                /\ rwlock' \in Words /\ glitches' \in Nat
  <2> SUFFICES ASSUME NEW new \in Words, NEW done \in RwLabels, NEW again \in RwLabels,
                      CasWeak(t, new, done, again) \/ Cas(t, new, done, again)
               PROVE  \E l \in RwLabels : /\ pc' = [pc EXCEPT ![t] = l] /\ OwnLocals(t)
                                          /\ rwlock' \in Words /\ glitches' \in Nat
    OBVIOUS
  <2>1. CASE pc' = [pc EXCEPT ![t] = done] /\ UNCHANGED <<loc, glitches>> /\ rwlock' = new
    BY <1>a, <2>1, Unmoved
  <2>2. CASE /\ pc' = [pc EXCEPT ![t] = again] /\ glitches' \in Nat /\ rwlock' = rwlock
             /\ loc' = [loc EXCEPT ![t].word = rwlock]
    <3>1. OwnLocals(t)
      BY <1>a, <2>2, SetWord
    <3> QED  BY <1>a, <2>2, <3>1
  <2> QED  BY <1>a, <2>1, <2>2 DEF CasWeak, Cas, Goto, WeakFailure
<1>d. /\ UnlockedWord \in Words /\ OnlyReaders \in Words
      /\ Word(WRITE_LOCKED, FALSE, FALSE) \in Words
      /\ Word(WRITE_LOCKED, loc[t].word.rw, loc[t].word.ww \/ loc[t].oww) \in Words
  BY <1>a, RwLockAssumption DEF Word, Words, UnlockedWord, OnlyReaders, WRITE_LOCKED
<1>e. /\ [rwlock EXCEPT !.n = @ + 1] \in Words /\ [rwlock EXCEPT !.n = @ - 1] \in Words
      /\ [rwlock EXCEPT !.n = @ + WRITE_LOCKED] \in Words
      /\ [rwlock EXCEPT !.n = @ - WRITE_LOCKED] \in Words
  BY <1>a, RwLockAssumption DEF Words, WRITE_LOCKED
<1>f. /\ [loc[t].word EXCEPT !.n = @ + 1] \in Words
      /\ [loc[t].word EXCEPT !.rw = TRUE] \in Words /\ [loc[t].word EXCEPT !.ww = TRUE] \in Words
  <2>1. ASSUME NEW w \in Words PROVE [w EXCEPT !.n = @ + 1] \in Words
    BY DEF Words
  <2>2. ASSUME NEW w \in Words, NEW b \in BOOLEAN
        PROVE  [w EXCEPT !.rw = b] \in Words /\ [w EXCEPT !.ww = b] \in Words
    BY DEF Words
  <2> QED  BY <1>a, <2>1, <2>2
<1>g. /\ {"rd_read", "rd_try", "rd_cas", "rd_spin", "rd_loop", "rd_wait", "rd_unlock"} \subseteq RwLabels
      /\ {"wr_write", "wr_try", "wr_spin", "wr_loop", "wr_seq", "wr_check", "wr_wait", "wr_unlock"} \subseteq RwLabels
      /\ {"rw_wake", "rw_bump", "rw_one", "rw_all"} \subseteq RwLabels
  BY DEF RwLabels
<1> USE <1>a, <1>b, <1>d, <1>e, <1>f, <1>g
<1>1. CASE TryRead(t)
  <2>1. CASE is_read_lockable(rwlock)
    BY <1>1, <2>1, Unmoved DEF TryRead, At, Goto
  <2>2. CASE ~(is_read_lockable(rwlock))
    BY <1>1, <2>2, FinishStep, Unmoved DEF TryRead, At, Goto
  <2> QED  BY <2>1, <2>2
<1>2. CASE ReadLoad(t)
  <2>1. OwnLocals(t)
    BY <1>2, SetWord DEF ReadLoad
  <2> QED  BY <1>2, <2>1, Unmoved DEF ReadLoad, At, Goto, rwVars
<1>3. CASE ReadCas(t)
  BY <1>3, <1>c, Unmoved DEF ReadCas, At
<1>4. CASE ReadSpin(t)
  <2>1. OwnLocals(t)
    BY <1>4, SetWord DEF ReadSpin
  <2> QED  BY <1>4, <2>1, Unmoved DEF ReadSpin, At, Goto, rwVars
<1>5. CASE ReadLock(t)
  BY <1>5, <1>c, Unmoved DEF ReadLock, At
<1>6. CASE ReadPanic(t)
  BY <1>6, FinishStep, Unmoved DEF ReadPanic, At, rwVars
<1>7. CASE ReadSetWaiting(t)
  <2>1. CASE loc[t].word.rw
    BY <1>7, <2>1, Unmoved DEF ReadSetWaiting, At, Goto
  <2>2. CASE ~loc[t].word.rw
    BY <1>7, <2>2, <1>c, Unmoved DEF ReadSetWaiting, At
  <2> QED  BY <2>1, <2>2
<1>8. CASE ReadWait(t)
  <2>1. /\ asleep[t] = Awake /\ pc[t] = "rd_wait" /\ pc' = [pc EXCEPT ![t] = "rd_spin"]
        /\ <<"rwlock", "rd_spin">> \in Naps /\ MaySleep(t, "rwlock")
        /\ UNCHANGED <<loc, glitches, rwVars>>
    BY <1>8 DEF ReadWait, At, FutexWait, Goto, Naps, Sleeping, MaySleep
  <2> QED  BY <2>1, OtherWait DEF rwVars
<1>9. CASE ReadUnlock(t)
  <2>1. rwlock' \in Words
    BY <1>9 DEF ReadUnlock
  <2>2. CASE is_unlocked(rwlock') /\ rwlock'.ww
    <3>1. OwnLocals(t)
      BY <1>9, <2>1, <2>2, SetWord DEF ReadUnlock
    <3> QED  BY <1>9, <2>1, <2>2, <3>1, Unmoved DEF ReadUnlock, At, Goto
  <2>3. CASE ~(is_unlocked(rwlock') /\ rwlock'.ww)
    BY <1>9, <2>1, <2>3, FinishStep, Unmoved DEF ReadUnlock, At
  <2> QED  BY <2>2, <2>3
<1>10. CASE TryWrite(t)
  <2>1. CASE is_unlocked(rwlock)
    BY <1>10, <2>1, Unmoved DEF TryWrite, At, Goto
  <2>2. CASE ~(is_unlocked(rwlock))
    BY <1>10, <2>2, FinishStep, Unmoved DEF TryWrite, At, Goto
  <2> QED  BY <2>1, <2>2
<1>11. CASE Write(t)
  <2>1. /\ pc[t] = "wr_write" /\ asleep[t] = Awake /\ UNCHANGED <<loc, asleep, writer_notify, tells>>
    BY <1>11 DEF Write, At
  <2>a. rwlock' \in Words
    BY <1>11 DEF Write
  <2>b. glitches' \in Nat
    <3>1. glitches' = glitches \/ WeakFailure
      BY <1>11 DEF Write
    <3> QED  BY <3>1 DEF WeakFailure
  <2>2. \/ pc' = [pc EXCEPT ![t] = "wr_unlock"]
        \/ pc' = [pc EXCEPT ![t] = "wr_spin"]
    BY <1>11 DEF Write, Goto
  <2> QED  BY <2>1, <2>2, <2>a, <2>b, Unmoved
<1>12. CASE WriteSpin(t)
  <2>1. OwnLocals(t)
    BY <1>12, SetWord DEF WriteSpin
  <2> QED  BY <1>12, <2>1, Unmoved DEF WriteSpin, At, Goto, rwVars
<1>13. CASE WriteLock(t)
  BY <1>13, <1>c, Unmoved DEF WriteLock, At
<1>14. CASE WriteSetWaiting(t)
  <2>1. CASE loc[t].word.ww
    BY <1>14, <2>1, Unmoved DEF WriteSetWaiting, At, Goto
  <2>2. CASE ~loc[t].word.ww
    BY <1>14, <2>2, <1>c, Unmoved DEF WriteSetWaiting, At
  <2> QED  BY <2>1, <2>2
<1>15. CASE WriteSeq(t)
  <2>1. OwnLocals(t)
    <3> DEFINE R == [loc[t] EXCEPT !.oww = TRUE, !.seq = writer_notify]
    <3>1. loc' = [loc EXCEPT ![t] = R]
      BY <1>15 DEF WriteSeq
    <3>2. R \in Locals
      <4>1. loc[t] \in Locals /\ writer_notify \in Int
        BY DEF Control
      <4> QED  BY <4>1 DEF Locals
    <3> HIDE DEF R
    <3> QED  BY <3>1, <3>2 DEF OwnLocals, Control
  <2> QED  BY <1>15, <2>1, Unmoved DEF WriteSeq, At, Goto, rwVars
<1>16. CASE WriteCheck(t)
  <2>1. OwnLocals(t)
    BY <1>16, SetWord DEF WriteCheck
  <2> QED  BY <1>16, <2>1, Unmoved DEF WriteCheck, At, Goto, rwVars
<1>17. CASE WriteWait(t)
  <2>1. /\ asleep[t] = Awake /\ pc[t] = "wr_wait" /\ pc' = [pc EXCEPT ![t] = "wr_spin"]
        /\ <<"notify", "wr_spin">> \in Naps /\ MaySleep(t, "notify")
        /\ UNCHANGED <<loc, glitches, rwVars>>
    BY <1>17 DEF WriteWait, At, FutexWait, Goto, Naps, Sleeping, MaySleep
  <2> QED  BY <2>1, OtherWait DEF rwVars
<1>18. CASE WriteUnlock(t)
  <2>1. rwlock' \in Words
    BY <1>18 DEF WriteUnlock
  <2>2. CASE rwlock.ww \/ rwlock.rw
    <3>1. OwnLocals(t)
      BY <1>18, <2>1, <2>2, SetWord DEF WriteUnlock
    <3> QED  BY <1>18, <2>1, <2>2, <3>1, Unmoved DEF WriteUnlock, At, Goto
  <2>3. CASE ~(rwlock.ww \/ rwlock.rw)
    BY <1>18, <2>1, <2>3, FinishStep, Unmoved DEF WriteUnlock, At
  <2> QED  BY <2>2, <2>3
<1>19. CASE WakeOnlyWriters(t)
  BY <1>19, <1>c, Unmoved DEF WakeOnlyWriters, At
<1>20. CASE WakeWriterFirst(t)
  <2>1. CASE rwlock = Both
    BY <1>20, <2>1, Unmoved DEF WakeWriterFirst, At, Goto
  <2>2. CASE ~(rwlock = Both)
    BY <1>20, <2>2, FinishStep, Unmoved DEF WakeWriterFirst, At, Goto
  <2> QED  BY <2>1, <2>2
<1>21. CASE WakeReaders(t)
  <2>1. CASE rwlock = OnlyReaders
    BY <1>21, <2>1, Unmoved DEF WakeReaders, At, Goto
  <2>2. CASE ~(rwlock = OnlyReaders)
    BY <1>21, <2>2, FinishStep, Unmoved DEF WakeReaders, At, Goto
  <2> QED  BY <2>1, <2>2
<1>22. CASE WakeNobody(t)
  BY <1>22, FinishStep, Unmoved DEF WakeNobody, At, rwVars
<1>23. CASE WakeAllReaders(t)
  BY <1>23, FinishStep, FutexWakeStep DEF WakeAllReaders, At, rwVars
<1>24. CASE WakeWriterBump(t)
  <2>1. writer_notify' \in 0 .. U32Size - 1
    BY <1>24, FutexAssumption DEF WakeWriterBump
  <2> QED  BY <1>24, <2>1, Unmoved DEF WakeWriterBump, At, Goto
<1>25. CASE WakeWriter(t)
  <2>1. CASE loc[t].word = OnlyWriters \/ FutexWoke("notify", tells)
    BY <1>25, <2>1, FinishStep, FutexWakeStep DEF WakeWriter, At, rwVars
  <2>2. CASE ~(loc[t].word = OnlyWriters \/ FutexWoke("notify", tells))
    <3>1. OwnLocals(t)
      BY <1>25, <2>2, SetWord DEF WakeWriter
    <3> QED  BY <1>25, <2>2, <3>1, FutexWakeStep DEF WakeWriter, At, Goto, rwVars
  <2> QED  BY <2>1, <2>2
<1> QED
  BY <1>1, <1>2, <1>3, <1>4, <1>5, <1>6, <1>7, <1>8, <1>9, <1>10, <1>11, <1>12, <1>13, <1>14,
     <1>15, <1>16, <1>17, <1>18, <1>19, <1>20, <1>21, <1>22, <1>23, <1>24, <1>25
  DEF RwLockStep

(* The start of an operation. *)
LEMMA StartOpControl ==
    ASSUME Control, NEW t \in Threads, StartOp(t)
    PROVE  /\ ThreadOK(t) /\ OthersKept(t) /\ todo' \in [Threads -> Seq(Ops)]
           /\ asleep[t] = Awake /\ asleep' = asleep
           /\ Entry(Head(todo[t])) \in Entries /\ Head(todo[t]) \in Ops
           /\ pc'[t] = Entry(Head(todo[t]))[1]
<1> DEFINE op == Head(todo[t])
<1>1. op \in Ops /\ todo' \in [Threads -> Seq(Ops)]
  BY DEF StartOp, Control
<1>2. Entry(op) \in Entries
  BY <1>1, EntryCases
<1>3. asleep[t] = Awake
  BY DEF StartOp, Control, NapOK, Naps
<1>4. /\ Entry(op)[1] \in Labels /\ Entry(op)[2] \in Labels
      /\ Entry(op)[1] \in LockingLabels => Entry(op)[2] \in HoldingLabels
      /\ Entry(op)[1] \notin UnlockingLabels
  <2> HIDE DEF op
  <2> QED  BY <1>2 DEF Entries, Labels, MutexLabels, LockingLabels, UnlockingLabels, HoldingLabels,
                RwLabels, OnceLabels, ParkerLabels, ParkLabels, UnparkLabels
<1>5. OwnLocals(t) /\ loc'[t].k = Entry(op)[2]
  <2> DEFINE R == FreshLocals(op, Entry(op)[2])
  <2>1. R \in Locals /\ R.k = Entry(op)[2]
    <3> HIDE DEF op
    <3> QED  BY <1>1, <1>4 DEF FreshLocals, Locals, Words
  <2>2. loc' = [loc EXCEPT ![t] = R]
    BY DEF StartOp
  <2> HIDE DEF R, op
  <2> QED  BY <2>1, <2>2 DEF OwnLocals, Control
<1>6. pc' = [pc EXCEPT ![t] = Entry(op)[1]] /\ asleep' = asleep
  BY DEF StartOp, Goto
<1> HIDE DEF op
<1>7. ThreadOK(t) /\ OthersKept(t) /\ pc'[t] = Entry(op)[1]
  BY <1>3, <1>4, <1>5, <1>6, AwakeMove, Unmoved
<1> QED  BY <1>1, <1>2, <1>3, <1>6, <1>7 DEF op

(* What the kernel does: the thread wakes up where it is. *)
Wakens(t) ==
    /\ asleep[t] # Awake /\ asleep' = [asleep EXCEPT ![t] = Awake]
    /\ UNCHANGED pc
    /\ \A u \in Threads \ {t} : loc'[u] = loc[u]
    /\ \A f \in {"op", "k", "state", "seq", "word"} : loc'[t][f] = loc[t][f]

(* The kernel ends a sleep and does nothing else. *)
LEMMA KernelStepControl ==
    ASSUME Control, NEW t \in Threads, KernelStep(t)
    PROVE  /\ ThreadOK(t) /\ OthersKept(t) /\ Wakens(t)
           /\ glitches' \in Nat /\ UNCHANGED <<lockVars, clientVars, todo>>
<1>1. /\ asleep[t] # Awake /\ asleep' = [asleep EXCEPT ![t] = Awake] /\ UNCHANGED pc
      /\ UNCHANGED <<lockVars, clientVars, todo>>
      /\ loc' = loc \/ loc' = [loc EXCEPT ![t].ok = FALSE]
      /\ glitches' = glitches \/ (glitches > 0 /\ glitches' = glitches - 1)
  <2>1. \A a, v : Interrupted(t, a, v) /\ a # "none" =>
           /\ asleep[t] # Awake /\ asleep' = [asleep EXCEPT ![t] = Awake]
           /\ pc' = pc /\ loc' = loc /\ glitches' = glitches
    BY AwakeAddr DEF Interrupted
  <2> QED
    BY <2>1 DEF KernelStep, TimedOut, WokenSpuriously, MutexInterrupted, CondvarInterrupted,
           RwLockInterrupted, OnceInterrupted, ParkInterrupted, lockVars
<1>2. OwnLocals(t) /\ \A f \in {"op", "k", "state", "seq", "word"} : loc'[t][f] = loc[t][f]
  <2>1. CASE loc' = loc
    BY <2>1, Unmoved
  <2>2. CASE loc' = [loc EXCEPT ![t].ok = FALSE]
    <3> DEFINE R == [loc[t] EXCEPT !.ok = FALSE]
    <3>1. loc[t] \in Locals
      BY DEF Control
    <3>2. R \in Locals /\ \A f \in {"op", "k", "state", "seq", "word"} : R[f] = loc[t][f]
      BY <3>1 DEF Locals
    <3>3. loc' = [loc EXCEPT ![t] = R]
      BY <2>2
    <3> HIDE DEF R
    <3> QED  BY <3>2, <3>3 DEF OwnLocals, Control
  <2> QED  BY <1>1, <2>1, <2>2
<1>3. glitches' \in Nat
  BY <1>1 DEF Control, Scalars
<1>4. NapOK(t)' /\ ReturnOK(t)'
  <2>1. ReturnOK(t) /\ loc'[t].k = loc[t].k
    BY <1>2 DEF Control
  <2> QED  BY <1>1, <2>1 DEF NapOK, ReturnOK, Control
<1>5. ThreadOK(t) /\ OthersKept(t)
  BY <1>1, <1>2, <1>4 DEF ThreadOK, OthersKept, OwnLocals, Control
<1>6. Wakens(t)
  BY <1>1, <1>2 DEF Wakens, OwnLocals
<1> QED  BY <1>1, <1>3, <1>5, <1>6

(* A step is one lock's step, the start of an operation or the kernel's. *)
MutexOnly(t)  == MutexStep(t) /\ UNCHANGED <<condvar, rwVars, onceVars, parker, clientVars, todo>>
RwLockOnly(t) == RwLockStep(t) /\ UNCHANGED <<mutex, condvar, onceVars, parker, clientVars, todo>>
OnceOnly(t)   == /\ OnceStep(t, loc[t].op = "call_once_force")
                 /\ UNCHANGED <<mutex, condvar, rwVars, parker, clientVars, todo>>

(* What a step of the system can be. *)
LEMMA StepCases ==
    ASSUME [Next]_vars
    PROVE  \/ UNCHANGED vars
           \/ \E t \in Threads :
                 \/ StartOp(t) \/ MutexOnly(t) \/ CondvarUserStep(t) \/ RwLockOnly(t)
                 \/ OnceOnly(t) \/ ParkerUserStep(t) \/ KernelStep(t)
BY DEF Next, ThreadStep, Ended, MutexOnly, RwLockOnly, OnceOnly, CondvarUserStep, ParkerUserStep

(* Every step keeps threads, locals and sleepers in order. *)
LEMMA ControlStep ==
    ASSUME Control, [Next]_vars
    PROVE  Control'
<1>1. CASE UNCHANGED vars
  BY <1>1 DEF vars, threadVars, lockVars, clientVars, rwVars, onceVars, Control, Scalars, NapOK, ReturnOK
<1>2. ASSUME NEW t \in Threads, StartOp(t) PROVE Control'
  BY <1>2, StartOpControl, ControlKept
  DEF StartOp, lockVars, clientVars, rwVars, onceVars, Control, Scalars
<1>3. ASSUME NEW t \in Threads, MutexOnly(t) PROVE Control'
  BY <1>3, MutexStepControl, ControlKept
  DEF MutexOnly, StepWithin, clientVars, rwVars, onceVars, Control, Scalars
<1>4. ASSUME NEW t \in Threads, CondvarUserStep(t) PROVE Control'
  BY <1>4, CondvarStepControl, ControlKept
  DEF StepWithin, rwVars, onceVars, Control, Scalars
<1>5. ASSUME NEW t \in Threads, RwLockOnly(t) PROVE Control'
  BY <1>5, RwLockStepControl, ControlKept
  DEF RwLockOnly, StepWithin, clientVars, onceVars, Control, Scalars
<1>6. ASSUME NEW t \in Threads, OnceOnly(t) PROVE Control'
  BY <1>6, OnceStepControl, ControlKept
  DEF OnceOnly, StepWithin, clientVars, rwVars, Control, Scalars
<1>7. ASSUME NEW t \in Threads, ParkerUserStep(t) PROVE Control'
  BY <1>7, ParkerStepControl, ControlKept
  DEF StepWithin, rwVars, onceVars, Control, Scalars
<1>8. ASSUME NEW t \in Threads, KernelStep(t) PROVE Control'
  BY <1>8, KernelStepControl, ControlKept
  DEF lockVars, clientVars, rwVars, onceVars, Control, Scalars
<1> QED  BY <1>1, <1>2, <1>3, <1>4, <1>5, <1>6, <1>7, <1>8, StepCases

(* They are in order at first. *)
LEMMA ControlInit ==
    ASSUME Init
    PROVE  Control
<1>1. Idle \in Locals /\ "idle" \in Labels
  BY DEF Idle, FreshLocals, Locals, Labels, Words
<1>2. todo \in [Threads -> Seq(Ops)] /\ tells \in BOOLEAN /\ glitches \in Nat
  BY ProgramsAssumption DEF Init
<1>3. rwlock \in Words
  BY DEF Init, UnlockedWord, Word, Words
<1>4. \A t \in Threads : NapOK(t) /\ ReturnOK(t)
  BY DEF Init, NapOK, ReturnOK, LockingLabels, UnlockingLabels
<1>5. Scalars
  BY <1>2, <1>3, FutexAssumption DEF Init, Scalars, UNLOCKED, INCOMPLETE, EMPTY
<1> QED  BY <1>1, <1>2, <1>4, <1>5 DEF Init, Control

(* The specification without its fairness, which the safety proofs use. *)
LEMMA SafetyPart == Spec => Init /\ [][Next]_vars
BY PTL DEF Spec

(* The program counters, locals and sleepers are always in order. *)
THEOREM ControlInvariant == Spec => []Control
<1>1. Init => Control
  BY ControlInit
<1>2. Control /\ [Next]_vars => Control'
  BY ControlStep
<1> QED  BY <1>1, <1>2, SafetyPart, PTL

-----------------------------------------------------------------------------
(* What the steps of one lock leave alone of the others *)

(* The threads at the labels L stay there, with their locals, and no other  *)
(* thread comes there.                                                      *)
Still(L) ==
    \A u \in Threads : pc[u] \in L \/ pc'[u] \in L =>
        /\ pc'[u] = pc[u]
        /\ \A f \in {"op", "k", "state", "seq", "word"} : loc'[u][f] = loc[u][f]

(* A step between other labels leaves the threads at L where they are. *)
LEMMA StillElsewhere ==
    ASSUME NEW L, "idle" \notin L, NEW t \in Threads, NEW M, NEW A, StepWithin(t, M, A),
           L \intersect M = {}
    PROVE  Still(L)
BY DEF Still, StepWithin, OthersKept

(* So does the start of an operation that does not begin at L. *)
LEMMA StillStart ==
    ASSUME Control, NEW L, "idle" \notin L, NEW t \in Threads, StartOp(t), \A e \in Entries : e[1] \notin L
    PROVE  Still(L)
<1>1. pc[t] = "idle" /\ pc'[t] \notin L /\ OthersKept(t)
  BY StartOpControl DEF StartOp
<1> QED  BY <1>1 DEF Still, OthersKept

(* So does the end of a sleep. *)
LEMMA StillKernel ==
    ASSUME NEW L, NEW t \in Threads, Wakens(t)
    PROVE  Still(L)
BY DEF Still, Wakens

(* And a stuttering step. *)
LEMMA StillUnchanged ==
    ASSUME NEW L, UNCHANGED vars
    PROVE  Still(L)
BY DEF Still, vars, threadVars
=============================================================================
