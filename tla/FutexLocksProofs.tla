-------------------------- MODULE FutexLocksProofs --------------------------
(***************************************************************************)
(* The safety of std's futex locks, for any number of threads, any         *)
(* programs and any width of the counters: one invariant for each lock,    *)
(* inductive together with Control, and the refinement of SharedLock.      *)
(***************************************************************************)
EXTENDS FutexControlProofs

-----------------------------------------------------------------------------
(* The invariants of the locks *)

(* The mutex has at most one holder, none when the word says unlocked, and  *)
(* owes its sleepers a wake-up.                                             *)
MutexInv ==
    /\ mutex \in {UNLOCKED, LOCKED, CONTENDED}
    /\ mutex = UNLOCKED => MutexHolders = {}
    /\ \A t, u \in MutexHolders : t = u
    /\ MutexWakeupOwed

(* A closure runs exactly while the word says so; what it came to is the    *)
(* word it leaves; COMPLETE is final; nothing has failed while the word is  *)
(* INCOMPLETE.                                                              *)
OnceRunners == {t \in Threads : pc[t] \in {"on_run", "on_drop"}}

OnceInv ==
    /\ once \in {INCOMPLETE, POISONED, RUNNING, QUEUED, COMPLETE}
    /\ inits \in Nat /\ failed \in Nat /\ inits <= 1
    /\ \A t, u \in OnceRunners : t = u
    /\ OnceRunners # {} <=> once \in {RUNNING, QUEUED}
    /\ once = INCOMPLETE => inits = 0 /\ failed = 0
    /\ once = POISONED => inits = 0
    /\ once = COMPLETE => inits = 1
    /\ \A t \in Threads :
          /\ pc[t] = "on_run" => inits = 0
          /\ pc[t] = "on_run" /\ loc[t].op = "call_once" => failed = 0
          /\ pc[t] = "on_drop" => loc[t].seq = (IF inits = 1 THEN COMPLETE ELSE POISONED)
          /\ pc[t] = "on_loop" /\ loc[t].state = COMPLETE => once = COMPLETE

(* The thread that parks, now or later. *)
MayPark(t) == \/ pc[t] \in ParkLabels
              \/ \E i \in 1 .. Len(todo[t]) : todo[t][i] \in ParkOps

(* One thread parks at most, and the word says PARKED only while it waits.  *)
ParkerInv ==
    /\ parker \in {EMPTY, NOTIFIED, PARKED}
    /\ parker = PARKED => \E t \in Threads : pc[t] \in {"pk_wait", "pk_woken"}
    /\ \A t, u \in Threads : MayPark(t) /\ MayPark(u) => t = u

(* The counter counts the readers, or says that there is one writer and no  *)
(* reader; a reader is about to lock only what it saw lockable.             *)
RwInv ==
    /\ rwlock \in [n : 0 .. MASK, rw : BOOLEAN, ww : BOOLEAN]
    /\ ReaderCountExact
    /\ ReadersWaitBehindWriters
    /\ Writers # {} => Readers = {}
    /\ \A t, u \in Writers : t = u
    /\ \A t \in Threads : pc[t] = "rd_cas" => is_read_lockable(loc[t].word)

-----------------------------------------------------------------------------
(* Once *)

(* A step is one of Once or leaves it, and the threads inside it, alone. *)
LEMMA OnceElsewhere ==
    ASSUME Control, [Next]_vars
    PROVE  \/ \E t \in Threads : OnceOnly(t)
           \/ UNCHANGED onceVars /\ Still(OnceLabels \ {"on_load"})
<1> DEFINE L == OnceLabels \ {"on_load"}
<1>a. "idle" \notin L /\ L \intersect MutexLabels = {} /\ L \intersect RwLabels = {}
      /\ L \intersect ParkerLabels = {} /\ \A e \in Entries : e[1] \notin L
  BY DEF OnceLabels, MutexLabels, LockingLabels, UnlockingLabels, HoldingLabels, CondvarLabels,
         RwLabels, ParkerLabels, ParkLabels, UnparkLabels, Entries
<1> HIDE DEF L
<1>1. CASE UNCHANGED vars
  BY <1>1, StillUnchanged DEF L, vars, lockVars
<1>2. ASSUME NEW t \in Threads, StartOp(t) PROVE UNCHANGED onceVars /\ Still(L)
  BY <1>a, <1>2, StillStart DEF StartOp, lockVars
<1>3. ASSUME NEW t \in Threads, MutexOnly(t) PROVE UNCHANGED onceVars /\ Still(L)
  BY <1>a, <1>3, MutexStepControl, StillElsewhere DEF MutexOnly
<1>4. ASSUME NEW t \in Threads, CondvarUserStep(t) PROVE UNCHANGED onceVars /\ Still(L)
  BY <1>a, <1>4, CondvarStepControl, StillElsewhere
<1>5. ASSUME NEW t \in Threads, RwLockOnly(t) PROVE UNCHANGED onceVars /\ Still(L)
  BY <1>a, <1>5, RwLockStepControl, StillElsewhere DEF RwLockOnly
<1>6. ASSUME NEW t \in Threads, ParkerUserStep(t) PROVE UNCHANGED onceVars /\ Still(L)
  BY <1>a, <1>6, ParkerStepControl, StillElsewhere
<1>7. ASSUME NEW t \in Threads, KernelStep(t) PROVE UNCHANGED onceVars /\ Still(L)
  BY <1>7, KernelStepControl, StillKernel DEF lockVars
<1> QED  BY <1>1, <1>2, <1>3, <1>4, <1>5, <1>6, <1>7, StepCases DEF L

(* A step outside Once, or one that moves t between labels where no closure *)
(* runs and leaves the word or only marks it queued.                        *)
LEMMA OnceInvQuiet ==
    ASSUME OnceInv, UNCHANGED <<inits, failed>>,
           once' = once \/ (once = RUNNING /\ once' = QUEUED),
           NEW t \in Threads, OthersKept(t),
           pc[t] \notin {"on_run", "on_drop"}, pc'[t] \notin {"on_run", "on_drop"},
           pc'[t] = "on_loop" => loc'[t].state = once \/ (pc[t] = "on_loop" /\ loc'[t].state = loc[t].state)
    PROVE  OnceInv'
<1>1. OnceRunners' = OnceRunners
  BY DEF OnceRunners, OthersKept
<1>2. once' = COMPLETE <=> once = COMPLETE
  BY DEF COMPLETE, RUNNING, QUEUED
<1>3. ASSUME NEW u \in Threads
      PROVE  /\ pc'[u] = "on_run" => inits' = 0
             /\ pc'[u] = "on_run" /\ loc'[u].op = "call_once" => failed' = 0
             /\ pc'[u] = "on_drop" => loc'[u].seq = (IF inits' = 1 THEN COMPLETE ELSE POISONED)
             /\ pc'[u] = "on_loop" /\ loc'[u].state = COMPLETE => once' = COMPLETE
  <2>1. CASE u = t
    BY <1>2, <2>1 DEF OnceInv
  <2>2. CASE u # t
    BY <1>2, <2>2 DEF OnceInv, OthersKept
  <2> QED  BY <2>1, <2>2
<1> QED  BY <1>1, <1>2, <1>3 DEF OnceInv, INCOMPLETE, POISONED, RUNNING, QUEUED, COMPLETE

(* Every step keeps the invariant of Once. *)
LEMMA OnceInvStep ==
    ASSUME Control, OnceInv, [Next]_vars
    PROVE  OnceInv'
<1>a. CASE UNCHANGED onceVars /\ Still(OnceLabels \ {"on_load"})
  <2>1. \A u \in Threads : pc[u] \in {"on_loop", "on_run", "on_drop"} \/ pc'[u] \in {"on_loop", "on_run", "on_drop"} =>
           pc'[u] = pc[u] /\ loc'[u].op = loc[u].op /\ loc'[u].state = loc[u].state /\ loc'[u].seq = loc[u].seq
    BY <1>a DEF Still, OnceLabels
  <2>2. OnceRunners' = OnceRunners
    BY <2>1 DEF OnceRunners
  <2> QED  BY <1>a, <2>1, <2>2 DEF OnceInv, onceVars
<1>b. ASSUME NEW t \in Threads, OnceOnly(t) PROVE OnceInv'
  <2>a. OthersKept(t)
    BY <1>b, OnceStepControl DEF OnceOnly, StepWithin
  <2>b. pc \in [Threads -> Labels] /\ loc \in [Threads -> Locals] /\ once \in Int
    BY DEF Control, Scalars
  <2>c. \A u \in Threads \ {t} : pc'[u] = pc[u] /\ loc'[u] = loc[u]
    BY <2>a DEF OthersKept
  <2>d. \A new \in {RUNNING, QUEUED}, done \in {"on_run", "on_wait"} :
           At(t, "on_loop") /\ OnceCas(t, new, done) =>
              /\ UNCHANGED <<inits, failed>>
              /\ \/ once = loc[t].state /\ once' = new /\ pc'[t] = done /\ loc' = loc
                 \/ once' = once /\ pc' = pc /\ loc'[t].state = once
    BY <2>b, SetState DEF OnceCas, Goto, At
  <2>1. CASE OnceLoad(t)
    <3>1. pc[t] = "on_load" /\ pc'[t] = "on_loop" /\ loc'[t].state = once /\ UNCHANGED onceVars
      BY <2>1, <2>b, SetState DEF OnceLoad, At, Goto
    <3> QED  BY <3>1, <2>a, OnceInvQuiet DEF onceVars
  <2>2. CASE OncePanic(t, loc[t].op = "call_once_force")
    BY <2>2, <2>a, FinishStep, OnceInvQuiet DEF OncePanic, At, onceVars
  <2>3. CASE OnceClaim(t, loc[t].op = "call_once_force")
    <3>1. pc[t] = "on_loop"
      BY <2>3 DEF OnceClaim, At
    <3>2. CASE once' = once /\ pc' = pc /\ loc'[t].state = once /\ UNCHANGED <<inits, failed>>
      BY <3>1, <3>2, <2>a, OnceInvQuiet
    <3>3. CASE once = loc[t].state /\ once' = RUNNING /\ pc'[t] = "on_run" /\ loc' = loc /\ UNCHANGED <<inits, failed>>
      <4>1. once \in {INCOMPLETE, POISONED} /\ (loc[t].op = "call_once" => once = INCOMPLETE)
        BY <2>3, <3>3 DEF OnceClaim
      <4>2. OnceRunners = {} /\ OnceRunners' = {t}
        <5>1. OnceRunners = {}
          BY <4>1 DEF OnceInv, INCOMPLETE, POISONED, RUNNING, QUEUED
        <5> QED  BY <5>1, <3>3, <2>c DEF OnceRunners
      <4>3. inits = 0 /\ (once = INCOMPLETE => failed = 0)
        BY <4>1 DEF OnceInv
      <4>4. ASSUME NEW u \in Threads
            PROVE  /\ pc'[u] = "on_run" => u = t
                   /\ pc'[u] # "on_drop"
                   /\ ~(pc'[u] = "on_loop" /\ loc'[u].state = COMPLETE)
        <5>1. CASE u = t
          BY <5>1, <3>3
        <5>2. CASE u # t
          BY <5>2, <2>c, <4>1, <4>2 DEF OnceRunners, OnceInv, INCOMPLETE, POISONED, COMPLETE
        <5> QED  BY <5>1, <5>2
      <4> QED
        BY <3>3, <4>1, <4>2, <4>3, <4>4 DEF OnceInv, INCOMPLETE, POISONED, RUNNING, QUEUED, COMPLETE
    <3> QED  BY <2>3, <2>d, <3>2, <3>3 DEF OnceClaim
  <2>4. CASE OnceQueue(t)
    <3>1. pc[t] = "on_loop"
      BY <2>4 DEF OnceQueue, At
    <3>2. CASE loc[t].state = RUNNING
      <4>1. CASE once' = once /\ pc' = pc /\ loc'[t].state = once /\ UNCHANGED <<inits, failed>>
        BY <3>1, <4>1, <2>a, OnceInvQuiet
      <4>2. CASE once = loc[t].state /\ once' = QUEUED /\ pc'[t] = "on_wait" /\ UNCHANGED <<inits, failed>>
        BY <3>1, <3>2, <4>2, <2>a, OnceInvQuiet
      <4> QED  BY <2>4, <3>2, <2>d, <4>1, <4>2 DEF OnceQueue
    <3>3. CASE loc[t].state # RUNNING
      <4>1. pc'[t] = "on_wait" /\ UNCHANGED onceVars
        BY <2>4, <2>b, <3>3 DEF OnceQueue, Goto
      <4> QED  BY <3>1, <4>1, <2>a, OnceInvQuiet DEF onceVars
    <3> QED  BY <3>2, <3>3
  <2>5. CASE OnceWait(t)
    <3>1. pc[t] = "on_wait" /\ pc'[t] = "on_load" /\ UNCHANGED onceVars
      BY <2>5, <2>b DEF OnceWait, At, FutexWait, Goto
    <3> QED  BY <3>1, <2>a, OnceInvQuiet DEF onceVars
  <2>6. CASE OnceReturn(t)
    BY <2>6, <2>a, FinishStep, OnceInvQuiet DEF OnceReturn, At, onceVars
  <2>7. CASE OnceRun(t)
    <3>1. pc[t] = "on_run" /\ pc'[t] = "on_drop" /\ once' = once
      BY <2>7, <2>b DEF OnceRun, At, Goto
    <3>2. inits = 0 /\ inits \in Nat /\ failed \in Nat /\ once \in {RUNNING, QUEUED}
          /\ \A u \in OnceRunners : u = t
      BY <3>1 DEF OnceInv, OnceRunners
    <3>3. OnceRunners' = OnceRunners
      BY <3>1, <2>c DEF OnceRunners
    <3>4. /\ loc'[t].seq = (IF inits' = 1 THEN COMPLETE ELSE POISONED)
          /\ inits' \in 0 .. 1 /\ failed' \in Nat
      <4>1. CASE loc' = [loc EXCEPT ![t].seq = COMPLETE] /\ inits' = inits + 1 /\ failed' = failed
        <5>1. COMPLETE \in Int
          BY DEF COMPLETE
        <5>2. loc'[t].seq = COMPLETE
          BY <4>1, <5>1, SetSeq
        <5> QED  BY <4>1, <5>2, <3>2
      <4>2. CASE loc' = [loc EXCEPT ![t].seq = POISONED] /\ failed' = failed + 1 /\ inits' = inits
        <5>1. POISONED \in Int
          BY DEF POISONED
        <5>2. loc'[t].seq = POISONED
          BY <4>2, <5>1, SetSeq
        <5> QED  BY <4>2, <5>2, <3>2
      <4> QED  BY <2>7, <4>1, <4>2 DEF OnceRun
    <3>5. ASSUME NEW u \in Threads
          PROVE  /\ pc'[u] # "on_run"
                 /\ pc'[u] = "on_drop" => u = t
                 /\ ~(pc'[u] = "on_loop" /\ loc'[u].state = COMPLETE)
      <4>1. CASE u = t
        BY <4>1, <3>1
      <4>2. CASE u # t
        BY <4>2, <2>c, <3>2 DEF OnceRunners, OnceInv, RUNNING, QUEUED, COMPLETE
      <4> QED  BY <4>1, <4>2
    <3> QED  BY <3>1, <3>2, <3>3, <3>4, <3>5 DEF OnceInv, INCOMPLETE, POISONED, RUNNING, QUEUED, COMPLETE
  <2>8. CASE OnceDrop(t)
    <3>1. /\ pc[t] = "on_drop" /\ pc'[t] \in {"on_wake", "idle"} /\ once' = loc[t].seq
          /\ UNCHANGED <<inits, failed>>
      BY <2>8, <2>b, FinishStep DEF OnceDrop, At, Goto
    <3>2. /\ \A u \in OnceRunners : u = t
          /\ once' = (IF inits = 1 THEN COMPLETE ELSE POISONED)
          /\ inits \in Nat /\ inits <= 1 /\ failed \in Nat /\ once \in {RUNNING, QUEUED}
      BY <3>1 DEF OnceInv, OnceRunners
    <3>3. OnceRunners' = {}
      BY <3>1, <3>2, <2>c DEF OnceRunners
    <3>4. ASSUME NEW u \in Threads
          PROVE  pc'[u] \notin {"on_run", "on_drop"} /\ ~(pc'[u] = "on_loop" /\ loc'[u].state = COMPLETE)
      <4>1. CASE u = t
        BY <4>1, <3>1
      <4>2. CASE u # t
        BY <4>2, <2>c, <3>2 DEF OnceRunners, OnceInv, RUNNING, QUEUED, COMPLETE
      <4> QED  BY <4>1, <4>2
    <3> QED  BY <3>1, <3>2, <3>3, <3>4 DEF OnceInv, INCOMPLETE, POISONED, RUNNING, QUEUED, COMPLETE
  <2>9. CASE OnceWake(t)
    BY <2>9, <2>a, FinishStep, OnceInvQuiet DEF OnceWake, At, onceVars
  <2> QED
    BY <1>b, <2>1, <2>2, <2>3, <2>4, <2>5, <2>6, <2>7, <2>8, <2>9 DEF OnceOnly, OnceStep
<1> QED  BY <1>a, <1>b, OnceElsewhere

(* It holds at first. *)
LEMMA OnceInvInit ==
    ASSUME Init
    PROVE  OnceInv
BY DEF Init, OnceInv, OnceRunners, INCOMPLETE, POISONED, RUNNING, QUEUED, COMPLETE

(* The inductive invariant of Once, whatever callers see before and after   *)
(* the closure fails.                                                       *)
THEOREM OnceInvariant == Spec => []OnceInv
<1>1. Init => OnceInv
  BY OnceInvInit
<1>2. Control /\ OnceInv /\ [Next]_vars => OnceInv'
  BY OnceInvStep
<1> QED  BY <1>1, <1>2, ControlInvariant, SafetyPart, PTL

(* A set all whose elements are equal has at most one. *)
LEMMA AtMostOne ==
    ASSUME NEW S, \A x, y \in S : x = y
    PROVE  IsFiniteSet(S) /\ Cardinality(S) <= 1
<1>1. CASE S = {}
  BY <1>1, FS_EmptySet
<1>2. CASE S # {}
  <2>1. PICK x \in S : TRUE
    BY <1>2
  <2>2. S = {x}
    BY <2>1
  <2>3. IsFiniteSet({x}) /\ Cardinality({x}) = 1
    BY FS_Singleton
  <2> QED  BY <2>2, <2>3
<1> QED  BY <1>1, <1>2

(* Once::call: one closure runs at a time, at most one completes, and who   *)
(* returns without running its own has seen it complete.                    *)
THEOREM OnceInitialises == Spec => []OnceInitialisesOnce
<1>1. OnceInv => OnceInitialisesOnce
  BY AtMostOne DEF OnceInv, OnceRunners, OnceInitialisesOnce
<1> QED  BY <1>1, OnceInvariant, PTL

(* Once a closure has failed, only call_once_force runs another. *)
THEOREM OncePoisons == Spec => []OncePoisonPropagates
<1>1. OnceInv => OncePoisonPropagates
  BY DEF OnceInv, OncePoisonPropagates, At
<1> QED  BY <1>1, OnceInvariant, PTL

-----------------------------------------------------------------------------
(* Parker *)

(* A step is one of the Parker, starts an operation, or leaves the Parker   *)
(* alone.                                                                   *)
LEMMA ParkerElsewhere ==
    ASSUME Control, [Next]_vars
    PROVE  \/ \E t \in Threads : ParkerUserStep(t)
           \/ \E t \in Threads : StartOp(t)
           \/ UNCHANGED <<parker, todo>> /\ Still(ParkerLabels)
<1>a. "idle" \notin ParkerLabels /\ ParkerLabels \intersect MutexLabels = {}
      /\ ParkerLabels \intersect RwLabels = {} /\ ParkerLabels \intersect OnceLabels = {}
  BY DEF OnceLabels, MutexLabels, LockingLabels, UnlockingLabels, HoldingLabels, CondvarLabels,
         RwLabels, ParkerLabels, ParkLabels, UnparkLabels
<1>1. CASE UNCHANGED vars
  BY <1>1, StillUnchanged DEF vars, lockVars
<1>3. ASSUME NEW t \in Threads, MutexOnly(t) PROVE UNCHANGED <<parker, todo>> /\ Still(ParkerLabels)
  BY <1>a, <1>3, MutexStepControl, StillElsewhere DEF MutexOnly
<1>4. ASSUME NEW t \in Threads, CondvarUserStep(t) PROVE UNCHANGED <<parker, todo>> /\ Still(ParkerLabels)
  BY <1>a, <1>4, CondvarStepControl, StillElsewhere
<1>5. ASSUME NEW t \in Threads, RwLockOnly(t) PROVE UNCHANGED <<parker, todo>> /\ Still(ParkerLabels)
  BY <1>a, <1>5, RwLockStepControl, StillElsewhere DEF RwLockOnly
<1>6. ASSUME NEW t \in Threads, OnceOnly(t) PROVE UNCHANGED <<parker, todo>> /\ Still(ParkerLabels)
  BY <1>a, <1>6, OnceStepControl, StillElsewhere DEF OnceOnly
<1>7. ASSUME NEW t \in Threads, KernelStep(t) PROVE UNCHANGED <<parker, todo>> /\ Still(ParkerLabels)
  BY <1>7, KernelStepControl, StillKernel DEF lockVars
<1> QED  BY <1>1, <1>3, <1>4, <1>5, <1>6, <1>7, StepCases

(* fetch_sub on the two words a starting park can find. *)
LEMMA FetchSub ==
    /\ (EMPTY - 1) % U32Size = PARKED
    /\ (NOTIFIED - 1) % U32Size = EMPTY
BY FutexAssumption DEF EMPTY, NOTIFIED, PARKED

(* Every step keeps the invariant of the Parker. *)
LEMMA ParkerInvStep ==
    ASSUME Control, ParkerInv, [Next]_vars
    PROVE  ParkerInv'
<1>a. CASE UNCHANGED <<parker, todo>> /\ Still(ParkerLabels)
  <2>1. \A u \in Threads : pc[u] \in ParkLabels \/ pc'[u] \in ParkLabels => pc'[u] = pc[u]
    BY <1>a DEF Still, ParkerLabels
  <2>2. \A u \in Threads : MayPark(u)' <=> MayPark(u)
    BY <1>a, <2>1 DEF MayPark
  <2> QED  BY <1>a, <2>1, <2>2 DEF ParkerInv, ParkLabels
<1>b. ASSUME NEW t \in Threads, StartOp(t) PROVE ParkerInv'
  <2>a. OthersKept(t) /\ pc'[t] = Entry(Head(todo[t]))[1] /\ Head(todo[t]) \in Ops
        /\ pc[t] = "idle" /\ parker' = parker
    BY <1>b, StartOpControl DEF StartOp, lockVars
  <2>b. \A u \in Threads \ {t} : pc'[u] = pc[u] /\ todo'[u] = todo[u]
    BY <1>b, <2>a DEF StartOp, Control, OthersKept
  <2>c. todo[t] \in Seq(Ops) /\ todo[t] # << >> /\ todo'[t] = Tail(todo[t])
    BY <1>b DEF StartOp, Control
  <2>1. MayPark(t)' => MayPark(t)
    <3>1. CASE pc'[t] \in ParkLabels
      <4>1. Entry(Head(todo[t])) \in Entries
        BY <1>b, StartOpControl
      <4>2. pc'[t] = "pk_check"
        BY <3>1, <4>1, <2>a DEF Entries, ParkLabels
      <4>3. todo[t][1] \in ParkOps /\ 1 \in 1 .. Len(todo[t])
        BY <2>a, <2>c, <4>2, EntryCases
      <4> QED  BY <4>3 DEF MayPark
    <3>2. ASSUME NEW i \in 1 .. Len(todo'[t]), todo'[t][i] \in ParkOps PROVE MayPark(t)
      <4>1. i + 1 \in 1 .. Len(todo[t]) /\ todo[t][i + 1] \in ParkOps
        BY <2>c, <3>2
      <4> QED  BY <4>1 DEF MayPark
    <3> QED  BY <3>1, <3>2 DEF MayPark
  <2>2. \A u \in Threads : MayPark(u)' => MayPark(u)
    BY <2>1, <2>b DEF MayPark
  <2>3. parker' = PARKED => \E u \in Threads : pc'[u] \in {"pk_wait", "pk_woken"}
    BY <2>a, <2>b DEF ParkerInv
  <2> QED  BY <2>a, <2>2, <2>3 DEF ParkerInv
<1>c. ASSUME NEW t \in Threads, ParkerUserStep(t) PROVE ParkerInv'
  <2>a. OthersKept(t) /\ UNCHANGED todo
    BY <1>c, ParkerStepControl DEF StepWithin
  <2>b. pc \in [Threads -> Labels] /\ loc \in [Threads -> Locals] /\ parker \in Int
    BY DEF Control, Scalars
  <2>c. \A u \in Threads \ {t} : pc'[u] = pc[u]
    BY <2>a DEF OthersKept
  (* The thread stays the one that parks. *)
  <2>d. ASSUME pc[t] \in ParkLabels \/ pc'[t] \notin ParkLabels
        PROVE  \A u \in Threads : MayPark(u)' => MayPark(u)
    BY <2>a, <2>c, <2>d DEF MayPark
  (* While t is before or after a park nobody else waits in one. *)
  <2>e. ASSUME pc[t] \in {"pk_check", "pk_park"} PROVE parker # PARKED
    BY <2>e DEF ParkerInv, MayPark, ParkLabels
  <2>1. ASSUME pc[t] \in ParkLabels \/ pc'[t] \notin ParkLabels,
               parker' \in {EMPTY, NOTIFIED}
        PROVE  ParkerInv'
    <3>1. PARKED # EMPTY /\ PARKED # NOTIFIED
      BY FutexAssumption DEF PARKED, EMPTY, NOTIFIED
    <3> QED  BY <2>1, <2>d, <3>1 DEF ParkerInv
  <2>2. ASSUME parker' = parker, pc[t] \in ParkLabels, parker = PARKED => pc'[t] \in {"pk_wait", "pk_woken"}
        PROVE  ParkerInv'
    BY <2>2, <2>d DEF ParkerInv
  <2>3. CASE CheckGift(t)
    <3>1. pc[t] = "pk_check" /\ parker' = parker
      BY <2>3 DEF CheckGift, At, lockVars
    <3> QED  BY <3>1, <2>e, <2>2 DEF ParkLabels
  <2>4. CASE Give(t)
    <3>1. pc[t] = "pk_give" /\ pc'[t] = "pk_unpark" /\ parker' = parker
      BY <2>4, <2>b DEF Give, At, Goto, lockVars
    <3>2. parker' = PARKED => \E u \in Threads : pc'[u] \in {"pk_wait", "pk_woken"}
      BY <3>1, <2>c DEF ParkerInv
    <3> QED  BY <3>1, <3>2, <2>d DEF ParkerInv, ParkLabels
  <2>5. CASE Park(t)
    <3>1. pc[t] = "pk_park" /\ parker' = (parker - 1) % U32Size
      BY <2>5 DEF Park, At
    <3>2. CASE parker = NOTIFIED
      BY <3>1, <3>2, <2>1, FetchSub DEF ParkLabels
    <3>3. CASE parker = EMPTY
      <4>1. pc'[t] = "pk_wait" /\ parker' = PARKED
        BY <2>5, <2>b, <3>1, <3>3, FetchSub DEF Park, Goto, EMPTY, NOTIFIED
      <4> QED  BY <3>1, <4>1, <2>d DEF ParkerInv, ParkLabels
    <3> QED  BY <3>1, <3>2, <3>3, <2>e DEF ParkerInv
  <2>6. CASE Unpark(t)
    <3>1. pc[t] = "pk_unpark" /\ pc'[t] \in {"pk_wake", "idle"} /\ parker' = NOTIFIED
      BY <2>6, <2>b, FinishStep DEF Unpark, At, Goto
    <3> QED  BY <3>1, <2>1 DEF ParkLabels
  <2>7. CASE UnparkWake(t)
    <3>1. pc[t] = "pk_wake" /\ pc'[t] = "idle" /\ parker' = parker
      BY <2>7, <2>b, FinishStep DEF UnparkWake, At
    <3>2. parker' = PARKED => \E u \in Threads : pc'[u] \in {"pk_wait", "pk_woken"}
      BY <3>1, <2>c DEF ParkerInv
    <3> QED  BY <3>1, <3>2, <2>d DEF ParkerInv, ParkLabels
  <2>8. CASE ParkWait(t, loc[t].op = "park_timeout")
    <3>1. pc[t] = "pk_wait" /\ pc'[t] = "pk_woken" /\ parker' = parker
      BY <2>8, <2>b DEF ParkWait, At, FutexWait, Goto
    <3> QED  BY <3>1, <2>2 DEF ParkLabels
  <2>9. CASE ParkWoken(t)
    <3>1. pc[t] = "pk_woken"
      BY <2>9 DEF ParkWoken, At
    <3>2. CASE parker' = EMPTY
      BY <3>1, <3>2, <2>1 DEF ParkLabels
    <3>3. CASE pc'[t] = "pk_wait" /\ parker' = parker
      BY <3>1, <3>3, <2>2 DEF ParkLabels
    <3> QED  BY <2>9, <2>b, <3>2, <3>3 DEF ParkWoken, Goto
  <2>10. CASE ParkTimeoutWoken(t)
    BY <2>10, <2>1 DEF ParkTimeoutWoken, At, ParkLabels
  <2> QED
    BY <1>c, <2>3, <2>4, <2>5, <2>6, <2>7, <2>8, <2>9, <2>10 DEF ParkerUserStep, ParkerStep
<1> QED  BY <1>a, <1>b, <1>c, ParkerElsewhere

(* It holds at first: only one thread has a call of park in its program. *)
LEMMA ParkerInvInit ==
    ASSUME Init
    PROVE  ParkerInv
<1>1. parker = EMPTY /\ EMPTY # PARKED /\ \A t \in Threads : pc[t] = "idle"
  BY FutexAssumption DEF Init, EMPTY, PARKED
<1>2. \A t, u \in Threads : MayPark(t) /\ MayPark(u) => t = u
  <2>1. PICK p \in Programs : todo = p.ops
    BY DEF Init
  <2> QED  BY <1>1, <2>1, ProgramsAssumption DEF MayPark, ParkLabels
<1> QED  BY <1>1, <1>2 DEF ParkerInv

(* The inductive invariant of the Parker. *)
THEOREM ParkerInvariant == Spec => []ParkerInv
<1>1. Init => ParkerInv
  BY ParkerInvInit
<1>2. Control /\ ParkerInv /\ [Next]_vars => ParkerInv'
  BY ParkerInvStep
<1> QED  BY <1>1, <1>2, ControlInvariant, SafetyPart, PTL

(* park and park_timeout never start on the word PARKED. *)
THEOREM ParkNeverNested == Spec => []ParkStartsUnparked
<1>1. ParkerInv => ParkStartsUnparked
  BY DEF ParkerInv, ParkStartsUnparked, At, MayPark, ParkLabels
<1> QED  BY <1>1, ParkerInvariant, PTL

-----------------------------------------------------------------------------
(* Mutex *)

(* The threads that will see to it that a sleeper is woken. *)
Owing  == {"mx_wake", "mx_contend", "mx_wait", "mx_respin"}
Owers  == {t \in Threads : pc[t] \in Owing /\ asleep[t] = Awake}

(* A wake-up is owed by the word or by a thread. *)
LEMMA OwedByOwers ==
    MutexWakeupOwed <=> (SleepersOn("mutex") # {} => mutex = CONTENDED \/ Owers # {})
BY DEF MutexWakeupOwed, Owers, Owing, At

(* Nobody falls asleep on the mutex and who owes a wake-up still owes it. *)
DebtKept == SleepersOn("mutex")' \subseteq SleepersOn("mutex") /\ Owers \subseteq Owers'

(* A step of a thread that owes nothing and does not fall asleep on the     *)
(* mutex.                                                                   *)
LEMMA DebtElsewhere ==
    ASSUME NEW t \in Threads, OthersKept(t), asleep'[t].addr # "mutex", pc[t] \notin Owing
    PROVE  DebtKept
<1>1. ASSUME NEW u \in Threads, asleep'[u].addr = "mutex" PROVE asleep[u].addr = "mutex"
  BY <1>1, AwakeAddr DEF OthersKept
<1>2. ASSUME NEW u \in Owers PROVE u \in Owers'
  BY DEF Owers, OthersKept
<1> QED  BY <1>1, <1>2 DEF DebtKept, SleepersOn

(* A step is one of Mutex or Condvar, or changes neither word, holder nor   *)
(* debt.                                                                    *)
LEMMA MutexElsewhere ==
    ASSUME Control, [Next]_vars
    PROVE  \/ \E t \in Threads : MutexOnly(t) \/ CondvarUserStep(t)
           \/ UNCHANGED mutex /\ MutexHolders' = MutexHolders /\ DebtKept
<1> DEFINE L == MutexLabels \ {"mx_lock", "mx_try"}
           Goal == UNCHANGED mutex /\ MutexHolders' = MutexHolders /\ DebtKept
<1>a. "idle" \notin L /\ L \intersect OnceLabels = {} /\ L \intersect RwLabels = {}
      /\ L \intersect ParkerLabels = {} /\ \A e \in Entries : e[1] \notin L
  BY DEF OnceLabels, MutexLabels, LockingLabels, UnlockingLabels, HoldingLabels, CondvarLabels,
         RwLabels, ParkerLabels, ParkLabels, UnparkLabels, Entries
<1>b. InMutex \subseteq L /\ Owing \subseteq L
  BY DEF InMutex, Owing, MutexLabels, LockingLabels, UnlockingLabels, HoldingLabels, CondvarLabels
<1> HIDE DEF L
<1>c. Still(L) => MutexHolders' = MutexHolders
  BY <1>b DEF Still, MutexHolders
<1>1. CASE UNCHANGED vars
  <2>1. asleep' = asleep /\ pc' = pc /\ mutex' = mutex
    BY <1>1 DEF vars, threadVars, lockVars
  <2> QED  BY <2>1 DEF MutexHolders, DebtKept, SleepersOn, Owers
<1>2. ASSUME NEW t \in Threads, StartOp(t) PROVE Goal
  <2>1. OthersKept(t) /\ asleep'[t].addr # "mutex" /\ pc[t] \notin Owing /\ mutex' = mutex
    BY <1>2, StartOpControl, AwakeAddr DEF StartOp, Owing, lockVars
  <2> QED  BY <2>1, <1>2, <1>a, <1>c, StillStart, DebtElsewhere
<1>3. ASSUME NEW t \in Threads, NEW M, NEW A, StepWithin(t, M, A), UNCHANGED mutex,
             L \intersect M = {}, "mutex" \notin A
      PROVE  Goal
  <2>1. OthersKept(t) /\ asleep'[t].addr # "mutex" /\ pc[t] \notin Owing
    BY <1>3, <1>b DEF StepWithin
  <2> QED  BY <2>1, <1>3, <1>a, <1>c, StillElsewhere, DebtElsewhere
<1>4. ASSUME NEW t \in Threads, RwLockOnly(t) PROVE Goal
  <2>1. StepWithin(t, RwLabels, {"rwlock", "notify"}) /\ UNCHANGED mutex
    BY <1>4, RwLockStepControl DEF RwLockOnly
  <2> QED  BY <2>1, <1>3, <1>a
<1>5. ASSUME NEW t \in Threads, OnceOnly(t) PROVE Goal
  <2>1. StepWithin(t, OnceLabels, {"once"}) /\ UNCHANGED mutex
    BY <1>5, OnceStepControl DEF OnceOnly
  <2> QED  BY <2>1, <1>3, <1>a
<1>6. ASSUME NEW t \in Threads, ParkerUserStep(t) PROVE Goal
  <2>1. StepWithin(t, ParkerLabels, {"parker"}) /\ UNCHANGED mutex
    BY <1>6, ParkerStepControl
  <2> QED  BY <2>1, <1>3, <1>a
<1>7. ASSUME NEW t \in Threads, KernelStep(t) PROVE Goal
  <2>1. Wakens(t) /\ mutex' = mutex /\ DOMAIN asleep = Threads
    BY <1>7, KernelStepControl DEF lockVars, Control
  <2>2. asleep' = [asleep EXCEPT ![t] = Awake] /\ pc' = pc
    BY <2>1 DEF Wakens
  <2>3. DebtKept
    BY <2>1, <2>2, AwakeAddr DEF DebtKept, SleepersOn, Owers
  <2> QED  BY <2>1, <2>3, <1>c, StillKernel
<1> QED  BY <1>1, <1>2, <1>4, <1>5, <1>6, <1>7, StepCases

(* What a step does to the holders of the mutex. *)
Passes ==
    \/ MutexHolders' = MutexHolders
    \/ \E t \in Threads :
          \/ MutexHolders = {} /\ MutexHolders' = {t}
          \/ MutexHolders = {t} /\ MutexHolders' = {}

(* The holders stay, the word is kept or becomes contended. *)
LEMMA MutexKept ==
    ASSUME MutexInv, MutexHolders' = MutexHolders, MutexWakeupOwed',
           mutex' = mutex \/ (mutex # UNLOCKED /\ mutex' = CONTENDED)
    PROVE  MutexInv' /\ Passes
BY DEF MutexInv, Passes, UNLOCKED, LOCKED, CONTENDED

(* A thread takes the mutex that was free. *)
LEMMA MutexTaken ==
    ASSUME MutexInv, mutex = UNLOCKED, mutex' \in {LOCKED, CONTENDED}, NEW t \in Threads,
           OthersKept(t), pc'[t] \in InMutex, MutexWakeupOwed'
    PROVE  MutexInv' /\ Passes
<1>1. MutexHolders = {}
  BY DEF MutexInv
<1>2. MutexHolders' = {t}
  BY <1>1 DEF MutexHolders, OthersKept
<1>3. Passes
  BY <1>1, <1>2 DEF Passes
<1>4. /\ mutex' \in {UNLOCKED, LOCKED, CONTENDED} /\ mutex' # UNLOCKED
      /\ \A u, v \in MutexHolders' : u = v
  BY <1>2 DEF UNLOCKED, LOCKED, CONTENDED
<1> QED  BY <1>3, <1>4 DEF MutexInv

(* The holder gives the mutex back. *)
LEMMA MutexGiven ==
    ASSUME MutexInv, mutex' = UNLOCKED, NEW t \in Threads,
           OthersKept(t), pc[t] \in InMutex, pc'[t] \notin InMutex, MutexWakeupOwed'
    PROVE  MutexInv' /\ Passes
<1>1. MutexHolders = {t}
  BY DEF MutexInv, MutexHolders
<1>2. MutexHolders' = {}
  BY <1>1 DEF MutexHolders, OthersKept
<1> QED  BY <1>1, <1>2 DEF MutexInv, Passes, UNLOCKED, LOCKED, CONTENDED

(* Every step keeps the invariant of the Mutex and passes it as a lock does. *)
LEMMA MutexInvStep ==
    ASSUME Control, MutexInv, [Next]_vars
    PROVE  MutexInv' /\ Passes
<1>a. DebtKept /\ (mutex = CONTENDED => mutex' = CONTENDED) => MutexWakeupOwed'
  <2>1. MutexWakeupOwed
    BY DEF MutexInv
  <2>2. MutexWakeupOwed' <=> (SleepersOn("mutex")' # {} => mutex' = CONTENDED \/ Owers' # {})
    BY DEF MutexWakeupOwed, Owers, Owing, At
  <2> QED  BY <2>1, <2>2, OwedByOwers DEF DebtKept
<1>b. mutex' = CONTENDED => MutexWakeupOwed'
  BY DEF MutexWakeupOwed, CONTENDED
<1>c. \A t \in Threads : pc'[t] \in Owing /\ asleep'[t] = Awake => MutexWakeupOwed'
  BY DEF MutexWakeupOwed, Owing, At
<1>d. CASE UNCHANGED mutex /\ MutexHolders' = MutexHolders /\ DebtKept
  BY <1>a, <1>d, MutexKept
<1>e. pc \in [Threads -> Labels] /\ loc \in [Threads -> Locals] /\ mutex \in Int
      /\ asleep = [u \in Threads |-> asleep[u]] /\ \A t \in Threads : NapOK(t) /\ ReturnOK(t)
  BY DEF Control, Scalars
<1>f. ASSUME NEW t \in Threads, CondvarUserStep(t) PROVE MutexInv' /\ Passes
  <2>1. OthersKept(t) /\ asleep'[t].addr # "mutex" /\ mutex' = mutex
    BY <1>f, CondvarStepControl DEF StepWithin
  <2>2. /\ pc[t] \in {"cs", "cv_check", "cv_produce", "cv_wait", "cv_sleep", "cv_notify", "cv_wake"}
        /\ pc[t] \in InMutex <=> pc'[t] \in InMutex
    <3>1. \A k : CallUnlock(t, k) => pc'[t] = "mx_unlock"
      BY <1>e DEF CallUnlock, Goto
    <3> QED
      BY <1>e, <1>f, <3>1, FinishStep
     
      DEF CondvarUserStep, LeaveCriticalSection, CheckItems, Produce, CondvarStep, CondvarLoad,
          CondvarSleep,
          CondvarNotify, CondvarWake, FutexWait, At, Goto, InMutex
  <2>3. MutexHolders' = MutexHolders
    BY <2>1, <2>2 DEF MutexHolders, OthersKept
  <2>4. DebtKept
    BY <2>1, <2>2, DebtElsewhere DEF Owing
  <2> QED  BY <2>1, <2>3, <2>4, <1>a, MutexKept
<1>g. ASSUME NEW t \in Threads, MutexOnly(t) PROVE MutexInv' /\ Passes
  <2>a. OthersKept(t) /\ pc'[t] \in MutexLabels \union {"idle"}
    BY <1>g, MutexStepControl DEF MutexOnly, StepWithin
  <2>b. /\ pc[t] \in LockingLabels => loc[t].k \in InMutex
        /\ pc[t] \in UnlockingLabels => loc[t].k \notin InMutex
    BY <1>e DEF ReturnOK, HoldingLabels, InMutex
  <2>c. pc[t] \notin Owing /\ asleep[t] = Awake /\ asleep' = asleep => DebtKept
    BY <2>a, AwakeAddr, DebtElsewhere
  <2>d. (pc[t] \in InMutex <=> pc'[t] \in InMutex) => MutexHolders' = MutexHolders
    BY <2>a DEF MutexHolders, OthersKept
  <2>1. CASE MutexLock(t)
    <3>1. pc[t] = "mx_lock" /\ asleep[t] = Awake /\ asleep' = asleep
      BY <2>1 DEF MutexLock, At
    <3>2. DebtKept
      BY <3>1, <2>c DEF Owing
    <3>3. CASE mutex = UNLOCKED
      <4>1. mutex' = LOCKED /\ pc'[t] \in InMutex
        BY <2>1, <2>b, <3>1, <3>3, ContinueStep DEF MutexLock, LockingLabels
      <4> QED  BY <3>2, <3>3, <4>1, <1>a, <2>a, MutexTaken DEF UNLOCKED, CONTENDED
    <3>4. CASE mutex # UNLOCKED
      <4>1. mutex' = mutex /\ pc'[t] = "mx_spin"
        BY <2>1, <1>e, <3>4 DEF MutexLock, Goto
      <4> QED  BY <3>1, <3>2, <4>1, <1>a, <2>d, MutexKept DEF InMutex
    <3> QED  BY <3>3, <3>4
  <2>2. CASE MutexTryLock(t)
    <3>1. pc[t] = "mx_try" /\ asleep[t] = Awake /\ asleep' = asleep
      BY <2>2 DEF MutexTryLock, At
    <3>2. DebtKept
      BY <3>1, <2>c DEF Owing
    <3>3. CASE mutex = UNLOCKED
      <4>1. mutex' = LOCKED /\ pc'[t] \in InMutex
        BY <2>2, <2>b, <3>1, <3>3, ContinueStep DEF MutexTryLock, LockingLabels
      <4> QED  BY <3>2, <3>3, <4>1, <1>a, <2>a, MutexTaken DEF UNLOCKED, CONTENDED
    <3>4. CASE mutex # UNLOCKED
      <4>1. mutex' = mutex /\ pc'[t] = "idle"
        BY <2>2, <1>e, <3>4, FinishStep DEF MutexTryLock
      <4> QED  BY <3>1, <3>2, <4>1, <1>a, <2>d, MutexKept DEF InMutex
    <3> QED  BY <3>3, <3>4
  <2>3. CASE MutexSpin(t)
    <3>1. /\ pc[t] = "mx_spin" /\ asleep[t] = Awake /\ asleep' = asleep /\ mutex' = mutex
          /\ pc'[t] \in {"mx_cas", "mx_contend"}
      BY <2>3, <1>e DEF MutexSpin, At, Goto
    <3>2. DebtKept
      BY <3>1, <2>c DEF Owing
    <3> QED  BY <3>1, <3>2, <1>a, <2>d, MutexKept DEF InMutex
  <2>4. CASE MutexCas(t)
    <3>1. pc[t] = "mx_cas" /\ asleep[t] = Awake /\ asleep' = asleep
      BY <2>4 DEF MutexCas, At
    <3>2. DebtKept
      BY <3>1, <2>c DEF Owing
    <3>3. CASE mutex = UNLOCKED
      <4>1. mutex' = LOCKED /\ pc'[t] \in InMutex
        BY <2>4, <2>b, <3>1, <3>3, ContinueStep DEF MutexCas, LockingLabels
      <4> QED  BY <3>2, <3>3, <4>1, <1>a, <2>a, MutexTaken DEF UNLOCKED, CONTENDED
    <3>4. CASE mutex # UNLOCKED
      <4>1. mutex' = mutex /\ pc'[t] = "mx_contend"
        BY <2>4, <1>e, <3>4 DEF MutexCas, Goto
      <4> QED  BY <3>1, <3>2, <4>1, <1>a, <2>d, MutexKept DEF InMutex
    <3> QED  BY <3>3, <3>4
  <2>5. CASE MutexContend(t)
    <3>1. pc[t] = "mx_contend" /\ asleep[t] = Awake /\ asleep' = asleep
      BY <2>5 DEF MutexContend, At
    <3>2. CASE loc[t].state = CONTENDED
      <4>1. mutex' = mutex /\ pc'[t] = "mx_wait"
        BY <2>5, <1>e, <3>2 DEF MutexContend, Goto
      <4> QED  BY <3>1, <4>1, <1>c, <2>d, MutexKept DEF InMutex, Owing
    <3>3. CASE loc[t].state # CONTENDED /\ mutex = UNLOCKED
      <4>1. mutex' = CONTENDED /\ pc'[t] \in InMutex
        BY <2>5, <2>b, <3>1, <3>3, ContinueStep DEF MutexContend, LockingLabels
      <4> QED  BY <3>3, <4>1, <1>b, <2>a, MutexTaken
    <3>4. CASE loc[t].state # CONTENDED /\ mutex # UNLOCKED
      <4>1. mutex' = CONTENDED /\ pc'[t] = "mx_wait"
        BY <2>5, <1>e, <3>4 DEF MutexContend, Goto
      <4> QED  BY <3>1, <3>4, <4>1, <1>b, <2>d, MutexKept DEF InMutex
    <3> QED  BY <3>2, <3>3, <3>4
  <2>6. CASE MutexWait(t)
    <3>1. pc[t] = "mx_wait" /\ asleep[t] = Awake /\ pc'[t] = "mx_respin" /\ mutex' = mutex
      BY <2>6, <1>e DEF MutexWait, At, FutexWait, Goto
    <3>2. mutex # CONTENDED => asleep' = asleep
      BY <2>6 DEF MutexWait, FutexWait
    <3>3. MutexWakeupOwed'
      BY <3>1, <3>2, <1>b, <1>c DEF Owing
    <3> QED  BY <3>1, <3>3, <2>d, MutexKept DEF InMutex
  <2>7. CASE MutexRespin(t)
    <3>1. /\ pc[t] = "mx_respin" /\ asleep[t] = Awake /\ asleep' = asleep /\ mutex' = mutex
          /\ pc'[t] = "mx_contend"
      BY <2>7, <1>e DEF MutexRespin, At, Goto
    <3> QED  BY <3>1, <1>c, <2>d, MutexKept DEF InMutex, Owing
  <2>8. CASE MutexUnlock(t)
    <3>1. pc[t] = "mx_unlock" /\ asleep[t] = Awake /\ asleep' = asleep /\ mutex' = UNLOCKED
      BY <2>8 DEF MutexUnlock, At
    <3>2. CASE mutex = CONTENDED
      <4>1. pc'[t] = "mx_wake"
        BY <2>8, <1>e, <3>2 DEF MutexUnlock, Goto
      <4> QED  BY <3>1, <4>1, <1>c, <2>a, MutexGiven DEF InMutex, Owing
    <3>3. CASE mutex # CONTENDED
      <4>1. pc'[t] \notin InMutex
        BY <2>8, <2>b, <3>1, <3>3, ContinueStep DEF MutexUnlock, UnlockingLabels
      <4>2. DebtKept
        BY <3>1, <2>c DEF Owing
      <4> QED  BY <3>1, <3>3, <4>1, <4>2, <1>a, <2>a, MutexGiven DEF InMutex
    <3> QED  BY <3>2, <3>3
  <2>9. CASE MutexWake(t)
    <3>1. pc[t] = "mx_wake" /\ asleep[t] = Awake /\ mutex' = mutex /\ FutexWake("mutex") /\ Continue(t)
      BY <2>9 DEF MutexWake, At
    <3>2. pc'[t] \notin InMutex
      BY <3>1, <2>b, ContinueStep DEF UnlockingLabels
    <3>3. MutexWakeupOwed'
      <4>1. CASE SleepersOn("mutex") = {}
        <5>1. SleepersOn("mutex")' = {}
          BY <3>1, <4>1 DEF FutexWake, SleepersOn
        <5> QED  BY <5>1 DEF MutexWakeupOwed
      <4>2. CASE SleepersOn("mutex") # {}
        <5>1. PICK u \in SleepersOn("mutex") : asleep' = [asleep EXCEPT ![u] = Awake]
          BY <3>1, <4>2 DEF FutexWake
        <5>2. u \in Threads /\ u # t /\ asleep'[u] = Awake /\ pc[u] = "mx_respin"
          BY <5>1, <3>1, <1>e, AwakeAddr DEF SleepersOn, NapOK, Naps
        <5>3. pc'[u] = "mx_respin"
          BY <5>2, <2>a DEF OthersKept
        <5> QED  BY <5>2, <5>3, <1>c DEF Owing
      <4> QED  BY <4>1, <4>2
    <3> QED  BY <3>1, <3>2, <3>3, <2>d, MutexKept DEF InMutex
  <2> QED
    BY <1>g, <2>1, <2>2, <2>3, <2>4, <2>5, <2>6, <2>7, <2>8, <2>9 DEF MutexOnly, MutexStep
<1> QED  BY <1>d, <1>f, <1>g, MutexElsewhere

(* It holds at first. *)
LEMMA MutexInvInit ==
    ASSUME Init
    PROVE  MutexInv
<1>1. SleepersOn("mutex") = {}
  BY AwakeAddr DEF Init, SleepersOn
<1>2. MutexHolders = {}
  BY DEF Init, MutexHolders, InMutex
<1> QED  BY <1>1, <1>2 DEF Init, MutexInv, MutexWakeupOwed

(* The inductive invariant of the Mutex, also across Condvar::wait. *)
THEOREM MutexInvariant == Spec => []MutexInv
<1>1. Init => MutexInv
  BY MutexInvInit
<1>2. Control /\ MutexInv /\ [Next]_vars => MutexInv'
  BY MutexInvStep
<1> QED  BY <1>1, <1>2, ControlInvariant, SafetyPart, PTL

(* A thread that sleeps on the mutex is never forgotten. *)
THEOREM MutexOwesWakeup == Spec => []MutexWakeupOwed
<1>1. MutexInv => MutexWakeupOwed
  BY DEF MutexInv
<1> QED  BY <1>1, MutexInvariant, PTL

(* Mutex, also through Condvar::wait, implements the exclusive lock. *)
THEOREM MutexRefinesLock == Spec => MutexIsLock
<1>1. Init => MutexLockSpec!Init
  BY MutexInvInit DEF Init, MutexInv, MutexLockSpec!Init, UNLOCKED
<1>2. Control /\ MutexInv /\ [Next]_vars => [MutexLockSpec!Next]_(MutexLockSpec!vars)
  <2> SUFFICES ASSUME Passes PROVE [MutexLockSpec!Next]_(MutexLockSpec!vars)
    BY MutexInvStep
  <2> QED
    BY
    DEF Passes, MutexLockSpec!Next, MutexLockSpec!vars, MutexLockSpec!AcquireExclusive,
        MutexLockSpec!ReleaseExclusive
<1> QED
  BY <1>1, <1>2, ControlInvariant, MutexInvariant, SafetyPart, PTL
  DEF MutexIsLock, MutexLockSpec!Spec

-----------------------------------------------------------------------------
(* RwLock *)

(* A step is one of RwLock or leaves it, its holders and its readers-to-be  *)
(* alone.                                                                   *)
LEMMA RwLockElsewhere ==
    ASSUME Control, [Next]_vars
    PROVE  \/ \E t \in Threads : RwLockOnly(t)
           \/ UNCHANGED rwVars /\ Still({"rd_unlock", "wr_unlock", "rd_cas"})
<1> DEFINE L == {"rd_unlock", "wr_unlock", "rd_cas"}
<1>a. "idle" \notin L /\ L \intersect MutexLabels = {} /\ L \intersect OnceLabels = {}
      /\ L \intersect ParkerLabels = {} /\ \A e \in Entries : e[1] \notin L
  BY DEF OnceLabels, MutexLabels, LockingLabels, UnlockingLabels, HoldingLabels, CondvarLabels,
         ParkerLabels, ParkLabels, UnparkLabels, Entries
<1> HIDE DEF L
<1>1. CASE UNCHANGED vars
  BY <1>1, StillUnchanged DEF L, vars, lockVars
<1>2. ASSUME NEW t \in Threads, StartOp(t) PROVE UNCHANGED rwVars /\ Still(L)
  BY <1>a, <1>2, StillStart DEF StartOp, lockVars
<1>3. ASSUME NEW t \in Threads, MutexOnly(t) PROVE UNCHANGED rwVars /\ Still(L)
  BY <1>a, <1>3, MutexStepControl, StillElsewhere DEF MutexOnly
<1>4. ASSUME NEW t \in Threads, CondvarUserStep(t) PROVE UNCHANGED rwVars /\ Still(L)
  BY <1>a, <1>4, CondvarStepControl, StillElsewhere
<1>5. ASSUME NEW t \in Threads, OnceOnly(t) PROVE UNCHANGED rwVars /\ Still(L)
  BY <1>a, <1>5, OnceStepControl, StillElsewhere DEF OnceOnly
<1>6. ASSUME NEW t \in Threads, ParkerUserStep(t) PROVE UNCHANGED rwVars /\ Still(L)
  BY <1>a, <1>6, ParkerStepControl, StillElsewhere
<1>7. ASSUME NEW t \in Threads, KernelStep(t) PROVE UNCHANGED rwVars /\ Still(L)
  BY <1>7, KernelStepControl, StillKernel DEF lockVars
<1> QED  BY <1>1, <1>2, <1>3, <1>4, <1>5, <1>6, <1>7, StepCases DEF L

FullWords == [n : 0 .. MASK, rw : BOOLEAN, ww : BOOLEAN]

(* What a step does to the holders of the RwLock. *)
RwPasses ==
    \/ Readers' = Readers /\ Writers' = Writers
    \/ \E t \in Threads :
          \/ Writers = {} /\ t \notin Readers /\ Readers' = Readers \union {t} /\ Writers' = Writers
          \/ t \in Readers /\ Readers' = Readers \ {t} /\ Writers' = Writers
          \/ Readers = {} /\ Writers = {} /\ Writers' = {t} /\ Readers' = Readers
          \/ Writers = {t} /\ Writers' = {} /\ Readers' = Readers

Held == {"rd_unlock", "wr_unlock"}

(* The set of readers is finite, its size a number, zero if it is empty. *)
LEMMA ReadersFinite ==
    /\ IsFiniteSet(Readers) /\ Cardinality(Readers) \in Nat
    /\ Cardinality(Readers) = 0 <=> Readers = {}
<1>1. IsFiniteSet(Readers)
  BY FutexAssumption, FS_Subset DEF Readers
<1> QED  BY <1>1, FS_CardinalityType, FS_EmptySet

(* The word with no count has no holder. *)
LEMMA FreeWord ==
    ASSUME RwInv, is_unlocked(rwlock)
    PROVE  Readers = {} /\ Writers = {}
<1>1. Writers = {}
  BY RwLockAssumption DEF RwInv, ReaderCountExact, is_unlocked, WRITE_LOCKED
<1> QED  BY <1>1, ReadersFinite DEF RwInv, ReaderCountExact, is_unlocked

(* The holders stay. *)
LEMMA RwKept ==
    ASSUME RwInv, NEW t \in Threads, OthersKept(t), pc[t] \notin Held, pc'[t] \notin Held,
           rwlock' \in FullWords, rwlock'.n = rwlock.n,
           Readers # {} /\ rwlock'.rw => rwlock'.ww,
           pc'[t] = "rd_cas" => is_read_lockable(loc'[t].word)
    PROVE  RwInv' /\ RwPasses
<1>1. Readers' = Readers /\ Writers' = Writers
  BY DEF Readers, Writers, OthersKept, Held
<1>2. ASSUME NEW u \in Threads, pc'[u] = "rd_cas" PROVE is_read_lockable(loc'[u].word)
  BY <1>2 DEF RwInv, OthersKept
<1>3. ReaderCountExact' /\ ReadersWaitBehindWriters'
  BY <1>1 DEF RwInv, ReaderCountExact, ReadersWaitBehindWriters
<1> QED  BY <1>1, <1>2, <1>3 DEF RwInv, RwPasses, FullWords, is_read_lockable

(* A reader comes in. *)
LEMMA RwReaderIn ==
    ASSUME RwInv, NEW t \in Threads, OthersKept(t), pc[t] \notin Held, pc'[t] = "rd_unlock",
           is_read_lockable(rwlock), rwlock' = [rwlock EXCEPT !.n = @ + 1]
    PROVE  RwInv' /\ RwPasses
<1>1. rwlock \in FullWords /\ rwlock.n < MASK - 1 /\ ~rwlock.rw /\ ~rwlock.ww
  BY DEF RwInv, FullWords, is_read_lockable, MAX_READERS
<1>2. Writers = {} /\ rwlock.n = Cardinality(Readers)
  BY <1>1, RwLockAssumption DEF RwInv, ReaderCountExact, WRITE_LOCKED, FullWords
<1>3. t \notin Readers /\ Readers' = Readers \union {t} /\ Writers' = Writers
  BY DEF Readers, Writers, OthersKept, Held
<1>4. Cardinality(Readers') = Cardinality(Readers) + 1
  BY <1>3, ReadersFinite, FS_AddElement
<1>5. /\ rwlock' \in FullWords /\ rwlock'.n = rwlock.n + 1 /\ rwlock'.rw = rwlock.rw
      /\ rwlock'.ww = rwlock.ww
  BY <1>1, RwLockAssumption DEF FullWords
<1>6. ASSUME NEW u \in Threads, pc'[u] = "rd_cas" PROVE is_read_lockable(loc'[u].word)
  BY <1>6 DEF RwInv, OthersKept
<1>7. ReaderCountExact' /\ ReadersWaitBehindWriters'
  BY <1>1, <1>2, <1>3, <1>4, <1>5, ReadersFinite, RwLockAssumption
  DEF ReaderCountExact, ReadersWaitBehindWriters, WRITE_LOCKED
<1>8. RwPasses
  BY <1>2, <1>3 DEF RwPasses
<1> QED  BY <1>2, <1>3, <1>5, <1>6, <1>7, <1>8 DEF RwInv, FullWords, is_read_lockable

(* A reader leaves. *)
LEMMA RwReaderOut ==
    ASSUME RwInv, NEW t \in Threads, OthersKept(t), pc[t] = "rd_unlock",
           pc'[t] \notin Held \union {"rd_cas"}, rwlock' = [rwlock EXCEPT !.n = @ - 1]
    PROVE  RwInv' /\ RwPasses
<1>1. t \in Readers /\ Readers' = Readers \ {t} /\ Writers' = Writers
  BY DEF Readers, Writers, OthersKept, Held
<1>2. Writers = {} /\ rwlock \in FullWords /\ rwlock.n = Cardinality(Readers) /\ rwlock.n < MASK
  BY <1>1 DEF RwInv, ReaderCountExact, WRITE_LOCKED, FullWords
<1>3. Cardinality(Readers') = Cardinality(Readers) - 1 /\ Cardinality(Readers) # 0
  BY <1>1, ReadersFinite, FS_RemoveElement
<1>4. /\ rwlock' \in FullWords /\ rwlock'.n = rwlock.n - 1 /\ rwlock'.rw = rwlock.rw
      /\ rwlock'.ww = rwlock.ww
  BY <1>2, <1>3, ReadersFinite, RwLockAssumption DEF FullWords
<1>5. ASSUME NEW u \in Threads, pc'[u] = "rd_cas" PROVE is_read_lockable(loc'[u].word)
  BY <1>5 DEF RwInv, OthersKept
<1>6. ReaderCountExact' /\ ReadersWaitBehindWriters'
  BY <1>1, <1>2, <1>3, <1>4, ReadersFinite, RwLockAssumption
  DEF RwInv, ReaderCountExact, ReadersWaitBehindWriters, WRITE_LOCKED
<1>7. RwPasses
  BY <1>1 DEF RwPasses
<1> QED  BY <1>1, <1>2, <1>4, <1>5, <1>6, <1>7 DEF RwInv, FullWords, is_read_lockable

(* A writer comes in. *)
LEMMA RwWriterIn ==
    ASSUME RwInv, NEW t \in Threads, OthersKept(t), pc[t] \notin Held, pc'[t] = "wr_unlock",
           is_unlocked(rwlock), rwlock' \in FullWords, rwlock'.n = WRITE_LOCKED
    PROVE  RwInv' /\ RwPasses
<1>1. Readers = {} /\ Writers = {}
  BY FreeWord
<1>2. Readers' = {} /\ Writers' = {t}
  BY <1>1 DEF Readers, Writers, OthersKept, Held
<1>3. ASSUME NEW u \in Threads, pc'[u] = "rd_cas" PROVE is_read_lockable(loc'[u].word)
  BY <1>3 DEF RwInv, OthersKept
<1>4. ReaderCountExact' /\ ReadersWaitBehindWriters'
  BY <1>2 DEF ReaderCountExact, ReadersWaitBehindWriters
<1>5. RwPasses
  BY <1>1, <1>2 DEF RwPasses
<1>6. \A u, v \in Writers' : u = v
  BY <1>2
<1> QED  BY <1>2, <1>3, <1>4, <1>5, <1>6 DEF RwInv, FullWords, is_read_lockable

(* The writer leaves. *)
LEMMA RwWriterOut ==
    ASSUME RwInv, NEW t \in Threads, OthersKept(t), pc[t] = "wr_unlock",
           pc'[t] \notin Held \union {"rd_cas"}, rwlock' = [rwlock EXCEPT !.n = @ - WRITE_LOCKED]
    PROVE  RwInv' /\ RwPasses
<1>1. Writers = {t} /\ Readers = {}
  BY DEF RwInv, Writers
<1>2. Writers' = {} /\ Readers' = {}
  BY <1>1 DEF Readers, Writers, OthersKept, Held
<1>3. rwlock \in FullWords /\ rwlock.n = MASK
  BY <1>1 DEF RwInv, ReaderCountExact, WRITE_LOCKED, FullWords
<1>4. rwlock' \in FullWords /\ rwlock'.n = 0
  BY <1>3, RwLockAssumption DEF FullWords, WRITE_LOCKED
<1>5. ASSUME NEW u \in Threads, pc'[u] = "rd_cas" PROVE is_read_lockable(loc'[u].word)
  BY <1>5 DEF RwInv, OthersKept
<1>6. ReaderCountExact' /\ ReadersWaitBehindWriters'
  BY <1>2, <1>4, FS_EmptySet, RwLockAssumption
  DEF ReaderCountExact, ReadersWaitBehindWriters, WRITE_LOCKED
<1>7. RwPasses
  BY <1>1, <1>2 DEF RwPasses
<1> QED  BY <1>2, <1>4, <1>5, <1>6, <1>7 DEF RwInv, FullWords, is_read_lockable

(* Every step keeps the invariant of the RwLock and passes it as a lock     *)
(* does.                                                                    *)
LEMMA RwInvStep ==
    ASSUME Control, RwInv, [Next]_vars
    PROVE  RwInv' /\ RwPasses
<1>a. CASE UNCHANGED rwVars /\ Still({"rd_unlock", "wr_unlock", "rd_cas"})
  <2>1. \A u \in Threads : pc[u] \in Held \union {"rd_cas"} \/ pc'[u] \in Held \union {"rd_cas"} =>
           pc'[u] = pc[u] /\ loc'[u].word = loc[u].word
    BY <1>a DEF Still, Held
  <2>2. Readers' = Readers /\ Writers' = Writers
    BY <2>1 DEF Readers, Writers, Held
  <2>3. rwlock' = rwlock
    BY <1>a DEF rwVars
  <2>4. ReaderCountExact' /\ ReadersWaitBehindWriters'
    BY <2>2, <2>3 DEF RwInv, ReaderCountExact, ReadersWaitBehindWriters
  <2> QED  BY <2>1, <2>2, <2>3, <2>4 DEF RwInv, RwPasses, is_read_lockable
<1>b. ASSUME NEW t \in Threads, RwLockOnly(t) PROVE RwInv' /\ RwPasses
  <2> DEFINE CasDone(new, l)  == rwlock = loc[t].word /\ rwlock' = new /\ pc'[t] = l
             CasFailed(l)     == rwlock' = rwlock /\ pc'[t] = l
  <2>a. OthersKept(t)
    BY <1>b, RwLockStepControl DEF RwLockOnly, StepWithin
  <2>b. pc \in [Threads -> Labels] /\ rwlock \in Words
    BY DEF Control, Scalars
  <2>c. /\ rwlock \in FullWords /\ (Readers # {} /\ rwlock.rw => rwlock.ww)
    BY DEF RwInv, FullWords, ReadersWaitBehindWriters
  <2>d. \A new, done, again : CasWeak(t, new, done, again) \/ Cas(t, new, done, again)
           => CasDone(new, done) \/ CasFailed(again)
    BY <2>b DEF CasWeak, Cas, Goto
  (* wake_writer_or_readers replaces an unlocked word by another. *)
  <2>e. \A l \in {"rw_bump", "rw_all"} : /\ pc[t] = "rw_wake" /\ pc'[t] = l
                                         /\ rwlock \in {OnlyWriters, OnlyReaders, Both}
                                         /\ rwlock' \in {OnlyReaders, UnlockedWord}
           => RwInv' /\ RwPasses
    <3> SUFFICES ASSUME NEW l \in {"rw_bump", "rw_all"}, pc[t] = "rw_wake", pc'[t] = l,
                        rwlock \in {OnlyWriters, OnlyReaders, Both},
                        rwlock' \in {OnlyReaders, UnlockedWord}
                 PROVE  RwInv' /\ RwPasses
      OBVIOUS
    <3>1. is_unlocked(rwlock) /\ rwlock' \in FullWords /\ rwlock'.n = rwlock.n
      <4>1. \A w \in {OnlyWriters, OnlyReaders, Both, UnlockedWord} : w.n = 0
        BY DEF OnlyWriters, OnlyReaders, Both, UnlockedWord, Word
      <4>2. OnlyReaders \in FullWords /\ UnlockedWord \in FullWords
        BY RwLockAssumption DEF OnlyReaders, UnlockedWord, Word, FullWords
      <4> QED  BY <4>1, <4>2 DEF is_unlocked
    <3>2. Readers = {}
      BY <3>1, FreeWord
    <3> QED  BY <3>1, <3>2, <2>a, RwKept DEF Held
  <2> HIDE DEF CasDone, CasFailed
  <2>1. CASE TryRead(t)
    <3>1. pc[t] = "rd_try"
      BY <2>1 DEF TryRead, At
    <3>2. CASE /\ is_read_lockable(rwlock) /\ rwlock' = [rwlock EXCEPT !.n = @ + 1]
               /\ pc'[t] = "rd_unlock"
      BY <3>1, <3>2, <2>a, RwReaderIn DEF Held
    <3>3. CASE pc'[t] = "idle" /\ rwlock' = rwlock
      BY <3>1, <3>3, <2>a, <2>c, RwKept DEF Held
    <3> QED  BY <2>1, <2>b, <3>2, <3>3, FinishStep DEF TryRead, Goto
  <2>2. CASE ReadLoad(t)
    <3>1. /\ pc[t] = "rd_read" /\ rwlock' = rwlock /\ pc'[t] \in {"rd_cas", "rd_spin"}
          /\ pc'[t] = "rd_cas" => is_read_lockable(rwlock)
      BY <2>2, <2>b DEF ReadLoad, At, Goto, rwVars
    <3>2. loc'[t].word = rwlock
      BY <2>2, <2>b, SetWord DEF ReadLoad
    <3>3. pc'[t] = "rd_cas" => is_read_lockable(loc'[t].word)
      BY <3>1, <3>2
    <3> QED  BY <3>1, <3>3, <2>a, <2>c, RwKept DEF Held
  <2>3. CASE ReadCas(t)
    <3>1. pc[t] = "rd_cas" /\ is_read_lockable(loc[t].word)
      BY <2>3 DEF ReadCas, At, RwInv
    <3>2. CASE CasDone([loc[t].word EXCEPT !.n = @ + 1], "rd_unlock")
      BY <3>1, <3>2, <2>a, RwReaderIn DEF CasDone, Held
    <3>3. CASE CasFailed("rd_spin")
      BY <3>1, <3>3, <2>a, <2>c, RwKept DEF CasFailed, Held
    <3> QED  BY <2>3, <3>2, <3>3, <2>d DEF ReadCas
  <2>4. CASE ReadSpin(t)
    <3>1. pc[t] = "rd_spin" /\ pc'[t] = "rd_loop" /\ rwlock' = rwlock
      BY <2>4, <2>b DEF ReadSpin, At, Goto, rwVars
    <3> QED  BY <3>1, <2>a, <2>c, RwKept DEF Held
  <2>5. CASE ReadLock(t)
    <3>1. pc[t] = "rd_loop" /\ is_read_lockable(loc[t].word)
      BY <2>5 DEF ReadLock, At
    <3>2. CASE CasDone([loc[t].word EXCEPT !.n = @ + 1], "rd_unlock")
      BY <3>1, <3>2, <2>a, RwReaderIn DEF CasDone, Held
    <3>3. CASE CasFailed("rd_loop")
      BY <3>1, <3>3, <2>a, <2>c, RwKept DEF CasFailed, Held
    <3> QED  BY <2>5, <3>2, <3>3, <2>d DEF ReadLock
  <2>6. CASE ReadPanic(t)
    <3>1. pc[t] = "rd_loop" /\ pc'[t] = "idle" /\ rwlock' = rwlock
      BY <2>6, <2>b, FinishStep DEF ReadPanic, At, Goto, rwVars
    <3> QED  BY <3>1, <2>a, <2>c, RwKept DEF Held
  <2>7. CASE ReadSetWaiting(t)
    <3>1. pc[t] = "rd_loop" /\ ~is_read_lockable(loc[t].word) /\ ~has_reached_max_readers(loc[t].word)
      BY <2>7 DEF ReadSetWaiting, At
    <3>2. CASE loc[t].word.rw
      <4>1. pc'[t] = "rd_wait" /\ rwlock' = rwlock
        BY <2>7, <2>b, <3>2 DEF ReadSetWaiting, Goto
      <4> QED  BY <3>1, <4>1, <2>a, <2>c, RwKept DEF Held
    <3>3. CASE ~loc[t].word.rw
      <4>1. CASE CasDone([loc[t].word EXCEPT !.rw = TRUE], "rd_wait")
        <5>1. /\ rwlock = loc[t].word /\ pc'[t] = "rd_wait" /\ rwlock' = [rwlock EXCEPT !.rw = TRUE]
          BY <4>1 DEF CasDone
        <5>2. rwlock' \in FullWords /\ rwlock'.n = rwlock.n /\ rwlock'.ww = rwlock.ww
          BY <5>1, <2>c DEF FullWords
        <5>3. Readers # {} => rwlock.ww
          <6>1. Readers # {} => Writers = {} /\ rwlock.n < MASK
            BY DEF RwInv, ReaderCountExact, WRITE_LOCKED
          <6>2. rwlock.n < MASK => rwlock.n < MASK - 1
            BY <3>1, <5>1, <2>c, RwLockAssumption DEF has_reached_max_readers, MAX_READERS, FullWords
          <6> QED  BY <3>1, <3>3, <5>1, <6>1, <6>2 DEF is_read_lockable, MAX_READERS
        <5> QED  BY <3>1, <5>1, <5>2, <5>3, <2>a, RwKept DEF Held
      <4>2. CASE CasFailed("rd_loop")
        BY <3>1, <4>2, <2>a, <2>c, RwKept DEF CasFailed, Held
      <4> QED  BY <2>7, <3>3, <4>1, <4>2, <2>d DEF ReadSetWaiting
    <3> QED  BY <3>2, <3>3
  <2>8. CASE ReadWait(t)
    <3>1. pc[t] = "rd_wait" /\ pc'[t] = "rd_spin" /\ rwlock' = rwlock
      BY <2>8, <2>b DEF ReadWait, At, Goto, rwVars, FutexWait
    <3> QED  BY <3>1, <2>a, <2>c, RwKept DEF Held
  <2>9. CASE ReadUnlock(t)
    <3>1. /\ pc[t] = "rd_unlock" /\ rwlock' = [rwlock EXCEPT !.n = @ - 1]
          /\ pc'[t] \in {"rw_wake", "idle"}
      BY <2>9, <2>b, FinishStep DEF ReadUnlock, At, Goto
    <3> QED  BY <3>1, <2>a, RwReaderOut DEF Held
  <2>10. CASE TryWrite(t)
    <3>1. pc[t] = "wr_try"
      BY <2>10 DEF TryWrite, At
    <3>2. CASE /\ is_unlocked(rwlock) /\ rwlock' = [rwlock EXCEPT !.n = @ + WRITE_LOCKED]
               /\ pc'[t] = "wr_unlock"
      <4>1. rwlock' \in FullWords /\ rwlock'.n = WRITE_LOCKED
        BY <3>2, <2>c, RwLockAssumption DEF FullWords, is_unlocked, WRITE_LOCKED
      <4> QED  BY <3>1, <3>2, <4>1, <2>a, RwWriterIn DEF Held
    <3>3. CASE pc'[t] = "idle" /\ rwlock' = rwlock
      BY <3>1, <3>3, <2>a, <2>c, RwKept DEF Held
    <3> QED  BY <2>10, <2>b, <3>2, <3>3, FinishStep DEF TryWrite, Goto
  <2>11. CASE Write(t)
    <3>1. pc[t] = "wr_write"
      BY <2>11 DEF Write, At
    <3>2. CASE /\ rwlock = UnlockedWord /\ rwlock' = Word(WRITE_LOCKED, FALSE, FALSE)
               /\ pc'[t] = "wr_unlock"
      <4>1. is_unlocked(rwlock) /\ rwlock' \in FullWords /\ rwlock'.n = WRITE_LOCKED
        BY <3>2, RwLockAssumption DEF FullWords, UnlockedWord, Word, is_unlocked, WRITE_LOCKED
      <4> QED  BY <3>1, <3>2, <4>1, <2>a, RwWriterIn DEF Held
    <3>3. CASE pc'[t] = "wr_spin" /\ rwlock' = rwlock
      BY <3>1, <3>3, <2>a, <2>c, RwKept DEF Held
    <3> QED  BY <2>11, <2>b, <3>2, <3>3 DEF Write, Goto
  <2>12. CASE WriteSpin(t)
    <3>1. pc[t] = "wr_spin" /\ pc'[t] = "wr_loop" /\ rwlock' = rwlock
      BY <2>12, <2>b DEF WriteSpin, At, Goto, rwVars
    <3> QED  BY <3>1, <2>a, <2>c, RwKept DEF Held
  <2>13. CASE WriteLock(t)
    <3> DEFINE new == Word(WRITE_LOCKED, loc[t].word.rw, loc[t].word.ww \/ loc[t].oww)
    <3>1. pc[t] = "wr_loop" /\ is_unlocked(loc[t].word)
      BY <2>13 DEF WriteLock, At
    <3>2. CASE CasDone(new, "wr_unlock")
      <4>1. rwlock = loc[t].word /\ rwlock' = new /\ pc'[t] = "wr_unlock"
        BY <3>2 DEF CasDone
      <4>2. rwlock' \in FullWords /\ rwlock'.n = WRITE_LOCKED
        BY <4>1, <2>c, RwLockAssumption DEF FullWords, Word, WRITE_LOCKED
      <4> QED  BY <3>1, <4>1, <4>2, <2>a, RwWriterIn DEF Held
    <3>3. CASE CasFailed("wr_loop")
      BY <3>1, <3>3, <2>a, <2>c, RwKept DEF CasFailed, Held
    <3> QED  BY <2>13, <3>2, <3>3, <2>d DEF WriteLock
  <2>14. CASE WriteSetWaiting(t)
    <3>1. pc[t] = "wr_loop"
      BY <2>14 DEF WriteSetWaiting, At
    <3>2. CASE loc[t].word.ww
      <4>1. pc'[t] = "wr_seq" /\ rwlock' = rwlock
        BY <2>14, <2>b, <3>2 DEF WriteSetWaiting, Goto
      <4> QED  BY <3>1, <4>1, <2>a, <2>c, RwKept DEF Held
    <3>3. CASE ~loc[t].word.ww
      <4>1. CASE CasDone([loc[t].word EXCEPT !.ww = TRUE], "wr_seq")
        <5>1. pc'[t] = "wr_seq" /\ rwlock' = [rwlock EXCEPT !.ww = TRUE]
          BY <4>1 DEF CasDone
        <5>2. rwlock' \in FullWords /\ rwlock'.n = rwlock.n /\ rwlock'.ww
          BY <5>1, <2>c DEF FullWords
        <5> QED  BY <3>1, <5>1, <5>2, <2>a, RwKept DEF Held
      <4>2. CASE CasFailed("wr_loop")
        BY <3>1, <4>2, <2>a, <2>c, RwKept DEF CasFailed, Held
      <4> QED  BY <2>14, <3>3, <4>1, <4>2, <2>d DEF WriteSetWaiting
    <3> QED  BY <3>2, <3>3
  <2>15. CASE WriteSeq(t)
    <3>1. pc[t] = "wr_seq" /\ pc'[t] = "wr_check" /\ rwlock' = rwlock
      BY <2>15, <2>b DEF WriteSeq, At, Goto, rwVars
    <3> QED  BY <3>1, <2>a, <2>c, RwKept DEF Held
  <2>16. CASE WriteCheck(t)
    <3>1. pc[t] = "wr_check" /\ pc'[t] \in {"wr_loop", "wr_wait"} /\ rwlock' = rwlock
      BY <2>16, <2>b DEF WriteCheck, At, Goto, rwVars
    <3> QED  BY <3>1, <2>a, <2>c, RwKept DEF Held
  <2>17. CASE WriteWait(t)
    <3>1. pc[t] = "wr_wait" /\ pc'[t] = "wr_spin" /\ rwlock' = rwlock
      BY <2>17, <2>b DEF WriteWait, At, Goto, rwVars, FutexWait
    <3> QED  BY <3>1, <2>a, <2>c, RwKept DEF Held
  <2>18. CASE WriteUnlock(t)
    <3>1. /\ pc[t] = "wr_unlock" /\ rwlock' = [rwlock EXCEPT !.n = @ - WRITE_LOCKED]
          /\ pc'[t] \in {"rw_wake", "idle"}
      BY <2>18, <2>b, FinishStep DEF WriteUnlock, At, Goto
    <3> QED  BY <3>1, <2>a, RwWriterOut DEF Held
  <2>19. CASE WakeOnlyWriters(t)
    <3>1. pc[t] = "rw_wake" /\ loc[t].word = OnlyWriters
      BY <2>19 DEF WakeOnlyWriters, At
    <3>2. CASE CasDone(UnlockedWord, "rw_bump")
      BY <3>1, <3>2, <2>e DEF CasDone
    <3>3. CASE CasFailed("rw_wake")
      BY <3>1, <3>3, <2>a, <2>c, RwKept DEF CasFailed, Held
    <3> QED  BY <2>19, <3>2, <3>3, <2>d DEF WakeOnlyWriters
  <2>20. CASE WakeWriterFirst(t)
    <3>1. pc[t] = "rw_wake"
      BY <2>20 DEF WakeWriterFirst, At
    <3>2. CASE rwlock = Both /\ rwlock' = OnlyReaders /\ pc'[t] = "rw_bump"
      BY <3>1, <3>2, <2>e
    <3>3. CASE pc'[t] = "idle" /\ rwlock' = rwlock
      BY <3>1, <3>3, <2>a, <2>c, RwKept DEF Held
    <3> QED  BY <2>20, <2>b, <3>2, <3>3, FinishStep DEF WakeWriterFirst, Goto
  <2>21. CASE WakeReaders(t)
    <3>1. pc[t] = "rw_wake"
      BY <2>21 DEF WakeReaders, At
    <3>2. CASE rwlock = OnlyReaders /\ rwlock' = UnlockedWord /\ pc'[t] = "rw_all"
      BY <3>1, <3>2, <2>e
    <3>3. CASE pc'[t] = "idle" /\ rwlock' = rwlock
      BY <3>1, <3>3, <2>a, <2>c, RwKept DEF Held
    <3> QED  BY <2>21, <2>b, <3>2, <3>3, FinishStep DEF WakeReaders, Goto
  <2>22. CASE WakeNobody(t)
    <3>1. pc[t] = "rw_wake" /\ pc'[t] = "idle" /\ rwlock' = rwlock
      BY <2>22, <2>b, FinishStep DEF WakeNobody, At, Goto, rwVars
    <3> QED  BY <3>1, <2>a, <2>c, RwKept DEF Held
  <2>23. CASE WakeAllReaders(t)
    <3>1. pc[t] = "rw_all" /\ pc'[t] = "idle" /\ rwlock' = rwlock
      BY <2>23, <2>b, FinishStep DEF WakeAllReaders, At, Goto, rwVars
    <3> QED  BY <3>1, <2>a, <2>c, RwKept DEF Held
  <2>24. CASE WakeWriterBump(t)
    <3>1. pc[t] = "rw_bump" /\ pc'[t] = "rw_one" /\ rwlock' = rwlock
      BY <2>24, <2>b DEF WakeWriterBump, At, Goto, rwVars
    <3> QED  BY <3>1, <2>a, <2>c, RwKept DEF Held
  <2>25. CASE WakeWriter(t)
    <3>1. pc[t] = "rw_one" /\ pc'[t] \in {"idle", "rw_wake"} /\ rwlock' = rwlock
      BY <2>25, <2>b, FinishStep DEF WakeWriter, At, Goto, rwVars
    <3> QED  BY <3>1, <2>a, <2>c, RwKept DEF Held
  <2> QED
    BY <1>b, <2>1, <2>2, <2>3, <2>4, <2>5, <2>6, <2>7, <2>8, <2>9, <2>10, <2>11, <2>12, <2>13,
       <2>14, <2>15, <2>16, <2>17, <2>18, <2>19, <2>20, <2>21, <2>22, <2>23, <2>24, <2>25
    DEF RwLockOnly, RwLockStep
<1> QED  BY <1>a, <1>b, RwLockElsewhere

(* It holds at first. *)
LEMMA RwInvInit == Init => RwInv /\ Readers = {} /\ Writers = {}
<1> SUFFICES ASSUME Init PROVE RwInv /\ Readers = {} /\ Writers = {}
  OBVIOUS
<1>1. Readers = {} /\ Writers = {}
  BY DEF Init, Readers, Writers
<1>2. rwlock \in FullWords /\ rwlock.n = 0
  BY RwLockAssumption DEF Init, UnlockedWord, Word, FullWords
<1>3. ReaderCountExact /\ ReadersWaitBehindWriters
  BY <1>1, <1>2, FS_EmptySet, RwLockAssumption
  DEF ReaderCountExact, ReadersWaitBehindWriters, WRITE_LOCKED
<1>4. \A t \in Threads : pc[t] # "rd_cas"
  BY DEF Init
<1> QED  BY <1>1, <1>2, <1>3, <1>4 DEF RwInv, FullWords

(* The inductive invariant of the RwLock. *)
THEOREM RwInvariant == Spec => []RwInv
<1>1. Init => RwInv
  BY RwInvInit
<1>2. Control /\ RwInv /\ [Next]_vars => RwInv'
  BY RwInvStep
<1> QED  BY <1>1, <1>2, ControlInvariant, SafetyPart, PTL

(* The count in the word is exact for any number of threads and any MASK:   *)
(* counting readers never reaches the value that means write locked.        *)
THEOREM ReaderCountsExact == Spec => []ReaderCountExact
<1>1. RwInv => ReaderCountExact
  BY DEF RwInv
<1> QED  BY <1>1, RwInvariant, PTL

(* The debug assertion of read_unlock holds whoever runs: readers wait on a *)
(* read-locked lock only behind a writer.                                   *)
THEOREM ReadersBehindWriters == Spec => []ReadersWaitBehindWriters
<1>1. RwInv => ReadersWaitBehindWriters
  BY DEF RwInv
<1> QED  BY <1>1, RwInvariant, PTL

(* RwLock implements the shared lock: readers together or a writer alone,   *)
(* through the contended paths and the wake-ups.                            *)
THEOREM RwLockRefinesLock == Spec => RwLockIsLock
<1>1. Init => RwLockSpec!Init
  BY RwInvInit DEF RwLockSpec!Init
<1>2. Control /\ RwInv /\ [Next]_vars => [RwLockSpec!Next]_(RwLockSpec!vars)
  <2> SUFFICES ASSUME RwPasses PROVE [RwLockSpec!Next]_(RwLockSpec!vars)
    BY RwInvStep
  <2> QED
    BY DEF RwPasses, RwLockSpec!Next, RwLockSpec!vars, RwLockSpec!AcquireShared,
           RwLockSpec!AcquireExclusive, RwLockSpec!ReleaseShared, RwLockSpec!ReleaseExclusive
<1> QED  BY <1>1, <1>2, ControlInvariant, RwInvariant, SafetyPart, PTL DEF RwLockIsLock, RwLockSpec!Spec

-----------------------------------------------------------------------------
(* Every word keeps to the values the code knows, and a thread sleeps only  *)
(* on the word of the operation it is in.                                   *)
THEOREM FutexTypes == Spec => []TypeOK
<1>1. Control /\ MutexInv /\ OnceInv /\ ParkerInv /\ RwInv => TypeOK
  BY DEF Control, Scalars, NapOK, Naps, MutexInv, OnceInv, ParkerInv, RwInv, TypeOK
<1> QED
  BY <1>1, ControlInvariant, MutexInvariant, OnceInvariant, ParkerInvariant, RwInvariant, PTL
=============================================================================
