------------------------------ MODULE QueryJobs ------------------------------
(***************************************************************************)
(* The query engine's jobs: compiler/rustc_query_system/src/query          *)
(* (plumbing.rs and job.rs).                                               *)
(*                                                                         *)
(* Threads ask for queries.  A query that is neither cached nor running is *)
(* executed by the thread that asks for it, as a job on top of the         *)
(* thread's stack; one that runs elsewhere is waited for on its latch; one *)
(* whose job panicked is poisoned.  When every thread waits, a handler     *)
(* looks for a cycle among the jobs and resumes one waiter of each, one by *)
(* one, with a cycle error.  Threads may all wait again before the last is *)
(* resumed; then the handler is called again.  The serial build has no     *)
(* latches: a query that is found running is below on the only stack, and  *)
(* the cycle error is returned at once.                                    *)
(*                                                                         *)
(* The compiler's queries are a parameter.  A world says what each         *)
(* provider asks for, in order, whether it then panics, what a cycle       *)
(* through it does, and what the threads ask for at the root.  A key runs  *)
(* at most one job at a time, so the key stands for the job id.            *)
(***************************************************************************)
EXTENDS Integers, FiniteSets, SequencesExt

CONSTANTS
    Threads,
    Queries,   \* the keys
    NoQuery,   \* no query: the root, where the compiler itself asks
    Worlds     \* the worlds: records with the fields
               \*   parallel  BOOLEAN, whether this is the parallel build
               \*   roots     [Threads -> Seq(Queries)]
               \*   calls     [Queries -> Seq(Queries)]
               \*   panics    the queries whose provider panics after its calls
               \*   fatal     the queries whose handle_cycle_error is Fatal

ASSUME QueryAssumption ==
    /\ IsFiniteSet(Threads) /\ IsFiniteSet(Queries) /\ NoQuery \notin Queries
    /\ \A w \in Worlds :
          /\ w.parallel \in BOOLEAN
          /\ w.roots \in [Threads -> Seq(Queries)]
          /\ w.calls \in [Queries -> Seq(Queries)]
          /\ w.panics \subseteq Queries /\ w.fatal \subseteq Queries
          \* the serial build has one thread
          /\ ~w.parallel => \A t, u \in Threads : w.roots[t] # << >> /\ w.roots[u] # << >> => t = u

VARIABLES
    world,    \* the world chosen at the start
    cache,    \* the queries whose value is in the query cache
    active,   \* QueryState::active: vacant, started with a parent, or poisoned
    latch,    \* the latch of each job: made, complete, and its waiters
    stack,    \* stack[t]: the jobs t is executing, innermost last
    at,       \* at[q]: the calls the provider of q has been answered
    rooted,   \* rooted[t]: the root queries t has been answered
    pc,       \* where t is in the engine
    target,   \* the query t is asking for
    cycle,    \* QueryWaiter::cycle: the threads to be resumed with an error
    starts,   \* history: how often the provider of q was started
    handlers, \* the calls of the deadlock handler that have not returned
    failure   \* an assertion, unwrap or panic of the engine that failed, or ""

vars == <<world, cache, active, latch, stack, at, rooted, pc, target, cycle,
          starts, handlers, failure>>

Vacant     == [tag |-> "vacant",  parent |-> NoQuery]
Started(p) == [tag |-> "started", parent |-> p]
Poisoned   == [tag |-> "poisoned", parent |-> NoQuery]

NoLatch  == [made |-> FALSE, complete |-> FALSE, waiters |-> << >>]
NewLatch == [made |-> TRUE, complete |-> FALSE, waiters |-> << >>]
SetLatch == [made |-> TRUE, complete |-> TRUE, waiters |-> << >>]

(* current_query_job: the innermost job of t. *)
CurrentJob(t) == IF stack[t] = << >> THEN NoQuery ELSE Last(stack[t])

Goto(t, l) == pc' = [pc EXCEPT ![t] = l]

(* More than one thread: the cache is looked at again under the shard lock. *)
ManyThreads == world.parallel /\ Cardinality(Threads) > 1

Init ==
    /\ world \in Worlds
    /\ cache = {}
    /\ active = [q \in Queries |-> Vacant]
    /\ latch = [q \in Queries |-> NoLatch]
    /\ stack = [t \in Threads |-> << >>]
    /\ at = [q \in Queries |-> 0]
    /\ rooted = [t \in Threads |-> 0]
    /\ pc = [t \in Threads |-> "run"]
    /\ target = [t \in Threads |-> NoQuery]
    /\ cycle = {}
    /\ starts = [q \in Queries |-> 0]
    /\ handlers = << >>
    /\ failure = ""

-----------------------------------------------------------------------------
(* Asking for a query *)

(* The query t was asking for is answered: its caller goes on. *)
Answered(t) ==
    /\ Goto(t, "run")
    /\ target' = [target EXCEPT ![t] = NoQuery]
    /\ IF stack[t] = << >>
       THEN rooted' = [rooted EXCEPT ![t] = @ + 1] /\ UNCHANGED at
       ELSE at' = [at EXCEPT ![CurrentJob(t)] = @ + 1] /\ UNCHANGED rooted

(* What t has still to ask for in the job it executes, or at the root. *)
Pending(t) ==
    IF stack[t] = << >> THEN SubSeq(world.roots[t], rooted[t] + 1, Len(world.roots[t]))
    ELSE LET q == CurrentJob(t) IN SubSeq(world.calls[q], at[q] + 1, Len(world.calls[q]))

(* try_get_cached: the look into the cache without a lock. *)
GetQuery(t) ==
    /\ pc[t] = "run" /\ Pending(t) # << >>
    /\ IF Head(Pending(t)) \in cache
       THEN Answered(t)
       ELSE /\ Goto(t, "try")
            /\ target' = [target EXCEPT ![t] = Head(Pending(t))]
            /\ UNCHANGED <<at, rooted>>
    /\ UNCHANGED <<world, cache, active, latch, stack, cycle, starts, failure>>

(* try_execute_query, under the lock of the shard: another thread has       *)
(* completed the query meanwhile.                                           *)
HitUnderLock(t) ==
    /\ pc[t] = "try"
    /\ ManyThreads /\ target[t] \in cache
    /\ Answered(t)
    /\ UNCHANGED <<world, cache, active, latch, stack, cycle, starts, failure>>

(* A slip: the cache is not looked at again under the lock. *)
MissWithoutLook(t) == pc[t] = "try"

MissUnderLock(t) == pc[t] = "try" /\ ~(ManyThreads /\ target[t] \in cache)

(* A slip: the job does not know the job that asked for it. *)
StartJobWithoutParent(t) ==
    /\ MissUnderLock(t)
    /\ active[target[t]] = Vacant
    /\ active' = [active EXCEPT ![target[t]] = Started(NoQuery)]
    /\ latch' = [latch EXCEPT ![target[t]] = NoLatch]
    /\ stack' = [stack EXCEPT ![t] = Append(@, target[t])]
    /\ at' = [at EXCEPT ![target[t]] = 0]
    /\ starts' = [starts EXCEPT ![target[t]] = @ + 1]
    /\ Goto(t, "run")
    /\ target' = [target EXCEPT ![t] = NoQuery]
    /\ UNCHANGED <<world, cache, rooted, cycle, failure>>

(* Nobody computes it: t does. *)
StartJob(t) ==
    /\ MissUnderLock(t)
    /\ active[target[t]] = Vacant
    /\ active' = [active EXCEPT ![target[t]] = Started(CurrentJob(t))]
    /\ latch' = [latch EXCEPT ![target[t]] = NoLatch]
    /\ stack' = [stack EXCEPT ![t] = Append(@, target[t])]
    /\ at' = [at EXCEPT ![target[t]] = 0]
    /\ starts' = [starts EXCEPT ![target[t]] = @ + 1]
    /\ Goto(t, "run")
    /\ target' = [target EXCEPT ![t] = NoQuery]
    /\ UNCHANGED <<world, cache, rooted, cycle, failure>>

(* It is running: t gets the latch out, making it if need be. *)
TakeLatch(t) ==
    /\ MissUnderLock(t)
    /\ world.parallel
    /\ active[target[t]].tag = "started"
    /\ latch' = IF latch[target[t]].made THEN latch
                ELSE [latch EXCEPT ![target[t]] = NewLatch]
    /\ Goto(t, "latch")
    /\ UNCHANGED <<world, cache, active, stack, at, rooted, target, cycle, starts, failure>>

(* It is poisoned: a fatal error is raised. *)
RaiseOnPoisoned(t) ==
    /\ MissUnderLock(t)
    /\ active[target[t]] = Poisoned
    /\ Goto(t, "unwind")
    /\ target' = [target EXCEPT ![t] = NoQuery]
    /\ UNCHANGED <<world, cache, active, latch, stack, at, rooted, cycle, starts, failure>>

(* mk_cycle and handle_cycle_error: a value made up for the caller, which   *)
(* no cache keeps, or an abort.                                             *)
HandleCycleError(t) ==
    IF target[t] \in world.fatal
    THEN /\ Goto(t, "unwind")
         /\ target' = [target EXCEPT ![t] = NoQuery]
         /\ UNCHANGED <<at, rooted>>
    ELSE Answered(t)

(* The serial build: cycle_error walks up the parents of the current job    *)
(* until it finds the query (find_cycle_in_stack).                          *)
CycleInStack(t) ==
    /\ MissUnderLock(t)
    /\ ~world.parallel
    /\ active[target[t]].tag = "started"
    /\ IF \E i \in DOMAIN stack[t] : stack[t][i] = target[t]
       THEN HandleCycleError(t) /\ UNCHANGED failure
       ELSE failure' = "did not find a cycle" /\ UNCHANGED <<pc, target, at, rooted>>
    /\ UNCHANGED <<world, cache, active, latch, stack, cycle, starts>>

-----------------------------------------------------------------------------
(* Waiting on a latch *)

(* A slip: the waiter registers without looking whether the job is over. *)
WaitOnBlindly(t) ==
    /\ pc[t] = "latch"
    /\ latch' = [latch EXCEPT ![target[t]].waiters =
                    Append(@, [thread |-> t, query |-> CurrentJob(t)])]
    /\ Goto(t, "blocked")
    /\ UNCHANGED <<world, cache, active, stack, at, rooted, target, cycle, starts, failure>>

(* wait_on_inner, under the lock of the latch: the waiter is registered and *)
(* the thread blocks, unless the job has completed.                         *)
WaitOn(t) ==
    /\ pc[t] = "latch"
    /\ IF latch[target[t]].complete
       THEN Goto(t, "resumed") /\ UNCHANGED latch
       ELSE /\ latch' = [latch EXCEPT ![target[t]].waiters =
                           Append(@, [thread |-> t, query |-> CurrentJob(t)])]
            /\ Goto(t, "blocked")
    /\ UNCHANGED <<world, cache, active, stack, at, rooted, target, cycle, starts, failure>>

(* wait_for_query, after the wait. *)
ResumedWithCycle(t) ==
    /\ pc[t] = "resumed" /\ t \in cycle
    /\ cycle' = cycle \ {t}
    /\ HandleCycleError(t)
    /\ UNCHANGED <<world, cache, active, latch, stack, starts, failure>>

(* The value is in the cache; if it is not, the thread panics. *)
ResumedWithValue(t) ==
    /\ pc[t] = "resumed" /\ t \notin cycle
    /\ IF target[t] \in cache THEN Answered(t)
       ELSE /\ Goto(t, "unwind")
            /\ target' = [target EXCEPT ![t] = NoQuery]
            /\ UNCHANGED <<at, rooted>>
    /\ UNCHANGED <<world, cache, active, latch, stack, cycle, starts, failure>>

(* QueryLatch::set: the waiters are drained and resumed. *)
SignalComplete(t, q, next) ==
    /\ latch' = IF latch[q].made THEN [latch EXCEPT ![q] = SetLatch] ELSE latch
    /\ LET woken == {latch[q].waiters[i].thread : i \in DOMAIN latch[q].waiters}
       IN  pc' = [u \in Threads |-> IF u \in woken THEN "resumed"
                                    ELSE IF u = t THEN next ELSE pc[u]]

-----------------------------------------------------------------------------
(* Executing a job *)

ProviderDone(t) == pc[t] = "run" /\ stack[t] # << >> /\ Pending(t) = << >>

(* JobOwner::complete: the value goes into the cache first, then the job    *)
(* leaves the active map, then the waiters are signalled.                   *)
CompleteCache(t) ==
    /\ ProviderDone(t) /\ CurrentJob(t) \notin world.panics
    /\ cache' = cache \union {CurrentJob(t)}
    /\ Goto(t, "cached")
    /\ UNCHANGED <<world, active, latch, stack, at, rooted, target, cycle, starts, failure>>

(* A slip: a completed job stays in the active map. *)
CompleteKeepsJob(t) ==
    /\ pc[t] = "cached"
    /\ Goto(t, "removed")
    /\ UNCHANGED <<world, cache, active, latch, stack, at, rooted, target, cycle, starts, failure>>

CompleteRemove(t) ==
    /\ pc[t] = "cached"
    /\ active' = [active EXCEPT ![CurrentJob(t)] = Vacant]
    /\ failure' = IF active[CurrentJob(t)].tag = "started" THEN failure
                  ELSE "completed job is not active"
    /\ Goto(t, "removed")
    /\ UNCHANGED <<world, cache, latch, stack, at, rooted, target, cycle, starts>>

(* The signal, and the return to whoever asked for the query. *)
CompleteSignal(t) ==
    /\ pc[t] = "removed"
    /\ SignalComplete(t, CurrentJob(t), "run")
    /\ stack' = [stack EXCEPT ![t] = Front(@)]
    /\ IF Len(stack[t]) = 1
       THEN rooted' = [rooted EXCEPT ![t] = @ + 1] /\ UNCHANGED at
       ELSE at' = [at EXCEPT ![stack[t][Len(stack[t]) - 1]] = @ + 1] /\ UNCHANGED rooted
    /\ UNCHANGED <<world, cache, active, target, cycle, starts, failure>>

ProviderPanics(t) ==
    /\ ProviderDone(t) /\ CurrentJob(t) \in world.panics
    /\ Goto(t, "unwind")
    /\ UNCHANGED <<world, cache, active, latch, stack, at, rooted, target, cycle, starts, failure>>

(* Slips: a dropped job is removed and not poisoned; it signals nobody. *)
DropWithoutPoison(t) ==
    /\ pc[t] = "unwind" /\ stack[t] # << >>
    /\ active' = [active EXCEPT ![CurrentJob(t)] = Vacant]
    /\ Goto(t, "poisoned")
    /\ UNCHANGED <<world, cache, latch, stack, at, rooted, target, cycle, starts, failure>>

DropWithoutSignal(t) ==
    /\ pc[t] = "poisoned"
    /\ Goto(t, "unwind")
    /\ stack' = [stack EXCEPT ![t] = Front(@)]
    /\ UNCHANGED <<world, cache, active, latch, at, rooted, target, cycle, starts, failure>>

(* JobOwner::drop while t unwinds: the job is poisoned, then signalled. *)
DropPoison(t) ==
    /\ pc[t] = "unwind" /\ stack[t] # << >>
    /\ active' = [active EXCEPT ![CurrentJob(t)] = Poisoned]
    /\ failure' = IF active[CurrentJob(t)].tag = "started" THEN failure
                  ELSE "dropped job is not active"
    /\ Goto(t, "poisoned")
    /\ UNCHANGED <<world, cache, latch, stack, at, rooted, target, cycle, starts>>

DropSignal(t) ==
    /\ pc[t] = "poisoned"
    /\ SignalComplete(t, CurrentJob(t), "unwind")
    /\ stack' = [stack EXCEPT ![t] = Front(@)]
    /\ UNCHANGED <<world, cache, active, at, rooted, target, cycle, starts, failure>>

(* The thread has nothing left to ask for, or the panic has reached the root. *)
EndThread(t) ==
    /\ stack[t] = << >>
    /\ \/ pc[t] = "unwind" /\ Goto(t, "panicked")
       \/ pc[t] = "run" /\ Pending(t) = << >> /\ Goto(t, "done")
    /\ UNCHANGED <<world, cache, active, latch, stack, at, rooted, target, cycle, starts, failure>>

-----------------------------------------------------------------------------
(* The deadlock handler *)

NoWaiter == [query |-> NoQuery, index |-> 0]

(* A call of the handler has a copy of the active jobs, with the latches    *)
(* that they had, the jobs it has still to look at, and the waiters it will *)
(* notify.  It is late if an earlier call has waiters to notify.            *)
HandlerCall(jobs, latches, late) ==
    [map |-> jobs, made |-> {q \in Queries : latches[q].made},
     jobs |-> {q \in Queries : jobs[q].tag = "started"}, wakelist |-> {}, late |-> late]

(* Rayon calls the handler when every thread of the pool waits or has no    *)
(* work.                                                                    *)
Stuck == /\ \E t \in Threads : pc[t] = "blocked"
         /\ \A t \in Threads : pc[t] \in {"blocked", "done", "panicked"}

(* The thread whose step leaves nobody at work collects the active jobs and *)
(* spawns the thread that runs the handler.                                 *)
CallHandler ==
    handlers' = IF Stuck' THEN Append(handlers, HandlerCall(active', latch', handlers # << >>))
                ELSE handlers

(* Slips: the parent is forgotten; the waiters are numbered after those at  *)
(* the root have been left out.                                             *)
WaitersOfNoParent(h, q) ==
    IF q \notin h.made THEN << >>
    ELSE SelectSeq([i \in DOMAIN latch[q].waiters |->
                      [query |-> latch[q].waiters[i].query, index |-> i]],
                   LAMBDA w : w.query # NoQuery)

WaitersOfRenumbered(h, q) ==
    LET inQuery == SelectSeq(latch[q].waiters, LAMBDA w : w.query # NoQuery)
    IN  (IF h.map[q].parent = NoQuery THEN << >>
         ELSE <<[query |-> h.map[q].parent, index |-> 0]>>)
        \o IF q \notin h.made THEN << >>
           ELSE [i \in DOMAIN inQuery |-> [query |-> inQuery[i].query, index |-> i]]

(* visit_waiters: the queries that wait for q.  The parent, which is on the *)
(* same stack and cannot be resumed (index 0), comes first, then the        *)
(* waiters of the latch by their index; a waiter at the root is no query.   *)
(* The parent is that of the handler's map, the latch is shared.            *)
WaitersOf(h, q) ==
    (IF h.map[q].parent = NoQuery THEN << >>
     ELSE <<[query |-> h.map[q].parent, index |-> 0]>>)
    \o IF q \notin h.made THEN << >>
       ELSE SelectSeq([i \in DOMAIN latch[q].waiters |->
                         [query |-> latch[q].waiters[i].query, index |-> i]],
                      LAMBDA w : w.query # NoQuery)

(* cycle_check from q: a depth-first search along the waiters.  The         *)
(* argument is <<q, stack, visited, i>>: q is the last query of the stack   *)
(* and its waiters before the i-th have been visited.  The result says      *)
(* whether there is a cycle, which queries are on it, and which resumable   *)
(* waiter of the search's path comes first.  A query started after the map  *)
(* was made ends the search with an unwrap that fails: no members.          *)
CycleCheck(h, root) ==
    LET search[a \in Queries \X Seq(Queries) \X (SUBSET Queries) \X Nat] ==
          LET q == a[1]
              stk == a[2]
              w == WaitersOf(h, q)[a[4]]
              onStack == {p \in DOMAIN stk : stk[p] = w.query}
              inner ==
                  IF w.query \notin a[3] /\ h.map[w.query].tag = "started"
                  THEN search[<<w.query, Append(stk, w.query), a[3] \union {w.query}, 1>>]
                  ELSE [found |-> onStack # {} \/ w.query \notin a[3],
                        visited |-> a[3], waiter |-> NoWaiter,
                        members |-> {stk[p] : p \in {p \in DOMAIN stk :
                                                     \E o \in onStack : o <= p}}]
          IN  IF a[4] > Len(WaitersOf(h, q))
              THEN [found |-> FALSE, visited |-> a[3], waiter |-> NoWaiter, members |-> {}]
              ELSE IF ~inner.found THEN search[<<q, stk, inner.visited, a[4] + 1>>]
              ELSE IF w.index = 0 THEN inner
              ELSE [inner EXCEPT !.waiter = [query |-> q, index |-> w.index]]
    IN  search[<<root, <<root>>, {root}, 1>>]

(* connected_to_root: the queries outside the cycle from which the waiters  *)
(* lead, outside the cycle, to a query without a parent.                    *)
ConnectedToRoot(h, members) ==
    LET within[n \in Nat] ==
          IF n = 0 THEN {q \in Queries \ members :
                            h.map[q].tag = "started" /\ h.map[q].parent = NoQuery}
          ELSE within[n - 1] \union
               {q \in Queries \ members :
                  \E i \in DOMAIN WaitersOf(h, q) : WaitersOf(h, q)[i].query \in within[n - 1]}
    IN  within[Cardinality(Queries)]

(* The queries of a cycle that lead to the root: one of them is where the   *)
(* error message enters the cycle.                                          *)
EntryPoints(h, members) ==
    {q \in members :
        \/ h.map[q].parent = NoQuery
        \/ \E i \in DOMAIN WaitersOf(h, q) :
              WaitersOf(h, q)[i].query \in ConnectedToRoot(h, members)}

(* What remove_cycle unwraps: an entry point for the error message, and a    *)
(* waiter that the latch of its query has.                                  *)
CanResume(h, r) ==
    /\ EntryPoints(h, r.members) # {}
    /\ r.waiter.query \in Queries
    /\ r.waiter.index \in DOMAIN latch[r.waiter.query].waiters

(* remove_cycle for the next job, in the order of a hash map: if a cycle is *)
(* found its queries are not looked at again and the waiter to be resumed   *)
(* leaves its latch for the wakelist.                                       *)
RemoveCycle(i) ==
    /\ failure = ""
    /\ \E q \in handlers[i].jobs :
          LET r == CycleCheck(handlers[i], q)
              w == r.waiter
              t == latch[w.query].waiters[w.index].thread
          IN  \/ /\ ~r.found
                 /\ handlers' = [handlers EXCEPT ![i].jobs = @ \ {q}]
                 /\ UNCHANGED <<latch, cycle, failure>>
              \/ /\ r.found
                 /\ IF CanResume(handlers[i], r)
                    THEN /\ handlers' = [handlers EXCEPT ![i].jobs = @ \ (r.members \union {q}),
                                                         ![i].wakelist = @ \union {t}]
                         /\ latch' = [latch EXCEPT ![w.query].waiters = RemoveAt(@, w.index)]
                         /\ cycle' = cycle \union {t}
                         /\ UNCHANGED failure
                    ELSE /\ failure' = "remove_cycle panicked"
                         /\ UNCHANGED <<handlers, latch, cycle>>
    /\ UNCHANGED <<world, cache, active, stack, at, rooted, pc, target, starts>>

(* The assertion that a cycle was found, then the waiters are notified one  *)
(* by one, in the order in which the hash map led to their cycles; the      *)
(* threads that run again meanwhile may all wait before the last of them.   *)
Notify(i) ==
    /\ failure = ""
    /\ handlers[i].jobs = {}
    /\ IF handlers[i].wakelist = {}
       THEN failure' = "no cycle found" /\ UNCHANGED <<handlers, pc>>
       ELSE \E t \in handlers[i].wakelist :
              /\ Goto(t, "resumed")
              /\ handlers' = IF handlers[i].wakelist = {t} THEN RemoveAt(handlers, i)
                             ELSE [handlers EXCEPT ![i].wakelist = @ \ {t}]
              /\ UNCHANGED failure
    /\ UNCHANGED <<world, cache, active, latch, stack, at, rooted, target, cycle, starts>>

-----------------------------------------------------------------------------
ThreadStep(t) ==
    /\ failure = ""
    /\ \/ GetQuery(t) \/ HitUnderLock(t) \/ StartJob(t) \/ TakeLatch(t)
       \/ RaiseOnPoisoned(t) \/ CycleInStack(t)
       \/ WaitOn(t) \/ ResumedWithCycle(t) \/ ResumedWithValue(t)
       \/ CompleteCache(t) \/ CompleteRemove(t) \/ CompleteSignal(t)
       \/ ProviderPanics(t) \/ DropPoison(t) \/ DropSignal(t) \/ EndThread(t)
    /\ CallHandler

AllEnded == \A t \in Threads : pc[t] \in {"done", "panicked"}

(* The threads have ended, or a panic of the handler has aborted the process. *)
Ended == (AllEnded \/ failure # "") /\ UNCHANGED vars

Deadlock == \E i \in DOMAIN handlers : RemoveCycle(i) \/ Notify(i)

Next == (\E t \in Threads : ThreadStep(t)) \/ Deadlock \/ Ended

(* A thread that is not blocked is scheduled, and so are the handler's. *)
Spec == /\ Init /\ [][Next]_vars
        /\ \A t \in Threads : WF_vars(ThreadStep(t))
        /\ WF_vars(Deadlock)

-----------------------------------------------------------------------------
(* Properties *)

JobsOf(t) == ToSet(stack[t])

(* A started query is on one stack, and a stack holds started queries in    *)
(* the order of their parents.                                              *)
TypeOK ==
    /\ cache \subseteq Queries /\ cycle \subseteq Threads
    /\ starts \in [Queries -> Nat] /\ at \in [Queries -> Nat]
    /\ target \in [Threads -> Queries \union {NoQuery}]
    /\ pc \in [Threads -> {"run", "try", "latch", "blocked", "resumed", "cached", "removed",
                           "unwind", "poisoned", "done", "panicked"}]
    /\ \A q \in Queries : active[q].tag = "started" => \E t \in Threads : q \in JobsOf(t)
    /\ \A t \in Threads : \A i \in DOMAIN stack[t] :
          active[stack[t][i]].tag = "started" =>
            active[stack[t][i]].parent = IF i = 1 THEN NoQuery ELSE stack[t][i - 1]

(* A query is executed at most once, however the look into the cache, the   *)
(* map of active jobs and the completion of a job interleave.               *)
ExecutedOnce == \A q \in Queries : starts[q] <= 1

LateHandler == \E i \in DOMAIN handlers : handlers[i].late

(* None of the engine's own assertions fails: a handler finds a cycle, and  *)
(* every cycle has a waiter to resume and an entry point; a job that        *)
(* completes or is dropped is still active, and the serial build finds its  *)
(* cycle on the stack.  Only a handler that was called while another was    *)
(* notifying may find nothing, or a map that is out of date.                *)
EngineNeverFails ==
    \/ failure = ""
    \/ LateHandler /\ failure \in {"no cycle found", "remove_cycle panicked"}

(* The handler's own assertion, assert!(found_cycle), for every call of it. *)
HandlerFindsCycle == failure # "no cycle found"

(* A thread resumed without a cycle error finds the value in the cache,     *)
(* unless the job it waited for was poisoned.                               *)
WaitersFindValue ==
    \A t \in Threads :
        pc[t] = "resumed" /\ t \notin cycle =>
            target[t] \in cache \/ active[target[t]] = Poisoned

(* No wake-up is lost: a blocked thread is registered with a latch that is  *)
(* not complete and whose job some thread still has, or is about to be      *)
(* resumed by the deadlock handler.                                         *)
BlockedIsRegistered ==
    \A t \in Threads :
        pc[t] = "blocked" /\ t \notin cycle =>
            /\ ~latch[target[t]].complete
            /\ \E i \in DOMAIN latch[target[t]].waiters :
                  latch[target[t]].waiters[i].thread = t
            /\ \E u \in Threads : target[t] \in JobsOf(u)

(* The thread that t waits for, and whether waiting leads back to t. *)
WaitsFor(t) == CHOOSE u \in Threads : target[t] \in JobsOf(u)

Follow(t) ==
    LET f[n \in Nat] == IF n = 0 THEN t
                        ELSE IF pc[f[n - 1]] = "blocked" THEN WaitsFor(f[n - 1]) ELSE f[n - 1]
    IN  f

WaitCycle(t) == {Follow(t)[n] : n \in 1 .. Cardinality(Threads)}

OnWaitCycle(t) == pc[t] = "blocked" /\ t \in WaitCycle(t)

(* A handler that is called while no other notifies resumes exactly one     *)
(* thread of every cycle of threads that wait for each other, and no thread *)
(* outside a cycle is given an error.                                       *)
CyclesBrokenOnce ==
    [][\A i \in DOMAIN handlers :
          /\ ~handlers[i].late /\ handlers[i].jobs # {}
          /\ handlers'[i].jobs = {} /\ failure' = ""
          => \A t \in Threads :
                IF OnWaitCycle(t) THEN Cardinality(WaitCycle(t) \intersect handlers'[i].wakelist) = 1
                ELSE t \notin handlers'[i].wakelist]_vars

(* Without a panicking provider and a fatal cycle nothing is poisoned and   *)
(* nobody panics; at the end no job is active, which encode_query_results   *)
(* asserts, and every query asked for at the root is in the cache.          *)
HealthyRunCompletes ==
    world.panics = {} /\ world.fatal = {} =>
        /\ \A q \in Queries : active[q] # Poisoned
        /\ \A t \in Threads : pc[t] # "panicked"
        /\ AllEnded => /\ \A q \in Queries : active[q] = Vacant
                       /\ \A t \in Threads : ToSet(world.roots[t]) \subseteq cache

(* Every thread ends: no wait lasts for ever, whatever waits for whatever,   *)
(* unless a handler called during the notifications aborts the process.      *)
AllEnd == <>(AllEnded \/ (LateHandler /\ failure # ""))
=============================================================================
