--------------------------- MODULE QueryJobsProofs ---------------------------
(***************************************************************************)
(* Proofs about the query engine's jobs, for any number of threads and any *)
(* queries, with cycles, panics and poisoned jobs.                         *)
(*                                                                         *)
(* EngineInv says in which state a job is that is on a thread's stack, and *)
(* that a job is on one stack once (Jobs); what cache and map of active    *)
(* jobs say of a query, and what its latch says (Queried); and where a     *)
(* thread that asks, waits or was resumed stands (Asking).  Nothing in it  *)
(* depends on what the deadlock handlers find: it only matters that they   *)
(* take threads off a latch that wait there, and notify each of them once  *)
(* (Woken), however many handlers are at work and whoever runs meanwhile.  *)
(***************************************************************************)
EXTENDS QueryJobs, FiniteSetTheorems, SequenceTheorems, TLAPS

-----------------------------------------------------------------------------
(* The invariant *)

Callers == Queries \union {NoQuery}

JobStates == {Vacant, Poisoned} \union {Started(p) : p \in Callers}

Latches == [made : BOOLEAN, complete : BOOLEAN,
            waiters : Seq([thread : Threads, query : Callers])]

Labels == {"run", "try", "latch", "blocked", "resumed", "cached", "removed",
           "unwind", "poisoned", "done", "panicked"}

Types ==
    /\ world \in Worlds
    /\ cache \subseteq Queries /\ cycle \subseteq Threads
    /\ active \in [Queries -> JobStates]
    /\ latch \in [Queries -> Latches]
    /\ stack \in [Threads -> Seq(Queries)]
    /\ at \in [Queries -> Nat] /\ rooted \in [Threads -> Nat]
    /\ pc \in [Threads -> Labels]
    /\ target \in [Threads -> Callers]
    /\ starts \in [Queries -> Nat]

(* Whoever asked for the i-th job of t. *)
Parent(t, i) == IF i = 1 THEN NoQuery ELSE stack[t][i - 1]

(* t is about to leave its innermost job, which has index i. *)
Leaving(t, i, labels) == i = Len(stack[t]) /\ pc[t] \in labels

(* The i-th job of t is active and has no value, unless t is leaving it. *)
JobOf(t, i) ==
    LET q == stack[t][i]
    IN  /\ ~Leaving(t, i, {"removed", "poisoned"}) => active[q] = Started(Parent(t, i))
        /\ Leaving(t, i, {"removed"}) => active[q] = Vacant
        /\ Leaving(t, i, {"poisoned"}) => active[q] = Poisoned
        /\ q \in cache <=> Leaving(t, i, {"cached", "removed"})

Jobs ==
    /\ \A t \in Threads : \A i \in DOMAIN stack[t] : JobOf(t, i)
    /\ \A t, u \in Threads : \A i \in DOMAIN stack[t], j \in DOMAIN stack[u] :
          stack[t][i] = stack[u][j] => t = u /\ i = j
    /\ \A t \in Threads : pc[t] \in {"cached", "removed", "poisoned"} => stack[t] # << >>
    /\ \A t \in Threads : pc[t] \in {"done", "panicked"} => stack[t] = << >>

OnStack(q) == \E t \in Threads : \E i \in DOMAIN stack[t] : stack[t][i] = q

(* q has been computed, or will not be. *)
Over(q) == q \in cache \/ active[q] = Poisoned

Queried(q) ==
    /\ starts[q] = IF q \in cache \/ active[q] # Vacant THEN 1 ELSE 0
    /\ active[q].tag = "started" => OnStack(q)
    /\ latch[q].complete => Over(q)
    /\ latch[q].made /\ ~latch[q].complete => OnStack(q)
    /\ ~latch[q].made \/ latch[q].complete => latch[q].waiters = << >>
    /\ \A i \in DOMAIN latch[q].waiters :
          LET u == latch[q].waiters[i].thread
          IN  /\ pc[u] = "blocked" /\ target[u] = q /\ u \notin cycle
              /\ \A j \in DOMAIN latch[q].waiters : latch[q].waiters[j].thread = u => i = j

Asking(t) ==
    /\ pc[t] \in {"try", "latch", "blocked", "resumed"} => target[t] \in Queries
    /\ pc[t] = "latch" => latch[target[t]].made
    /\ pc[t] = "blocked" /\ t \notin cycle =>
          \E i \in DOMAIN latch[target[t]].waiters : latch[target[t]].waiters[i].thread = t
    /\ pc[t] = "resumed" /\ t \notin cycle => Over(target[t])
    /\ t \in cycle => pc[t] \in {"blocked", "resumed"}
    /\ world.roots[t] = << >> => stack[t] = << >> /\ pc[t] \in {"run", "done"}
    /\ pc[t] = "try" /\ ~ManyThreads => target[t] \notin cache

HandlerCalls == [map : [Queries -> JobStates], made : SUBSET Queries, jobs : SUBSET Queries,
                 wakelist : SUBSET Threads, late : BOOLEAN]

(* The threads on the handlers' wakelists wait, off their latch, and each   *)
(* of them for one handler.                                                 *)
Woken ==
    /\ handlers \in Seq(HandlerCalls)
    /\ \A i \in DOMAIN handlers : \A t \in handlers[i].wakelist : t \in cycle /\ pc[t] = "blocked"
    /\ \A i, j \in DOMAIN handlers : \A t \in Threads :
          t \in handlers[i].wakelist /\ t \in handlers[j].wakelist => i = j

EngineInv ==
    /\ Types /\ Jobs /\ Woken
    /\ \A q \in Queries : Queried(q)
    /\ \A t \in Threads : Asking(t)

(* The assertions that do not depend on the search for cycles. *)
JobAsserts ==
    failure \notin {"did not find a cycle", "completed job is not active",
                    "dropped job is not active"}

-----------------------------------------------------------------------------
(* Sequences *)

(* The innermost element of a sequence, and what is left without it. *)
LEMMA FrontLast ==
    ASSUME NEW S, NEW s \in Seq(S), s # << >>
    PROVE  /\ Len(s) \in Nat \ {0} /\ Last(s) \in S /\ Last(s) = s[Len(s)]
           /\ Front(s) \in Seq(S) /\ Len(Front(s)) = Len(s) - 1
           /\ \A i \in 1 .. Len(s) - 1 : Front(s)[i] = s[i]
           /\ DOMAIN s = 1 .. Len(s) /\ DOMAIN Front(s) = 1 .. Len(s) - 1
<1>1. Len(s) \in Nat \ {0} /\ DOMAIN s = 1 .. Len(s)
  BY EmptySeq, LenProperties
<1>2. Front(s) = SubSeq(s, 1, Len(s) - 1) /\ Last(s) = s[Len(s)]
  BY DEF Front, Last
<1>3. s[Len(s)] \in S
  BY <1>1, ElementOfSeq
<1>4. /\ SubSeq(s, 1, Len(s) - 1) \in Seq(S)
      /\ Len(SubSeq(s, 1, Len(s) - 1)) = Len(s) - 1
      /\ \A i \in 1 .. Len(s) - 1 : SubSeq(s, 1, Len(s) - 1)[i] = s[i]
  BY <1>1
<1>5. DOMAIN SubSeq(s, 1, Len(s) - 1) = 1 .. Len(s) - 1
  BY <1>4, <1>1, LenProperties
<1> QED  BY <1>1, <1>2, <1>3, <1>4, <1>5

(* A sequence with an element more. *)
LEMMA Appended ==
    ASSUME NEW S, NEW s \in Seq(S), NEW e \in S
    PROVE  /\ Append(s, e) \in Seq(S) /\ Len(Append(s, e)) = Len(s) + 1 /\ Len(s) \in Nat
           /\ DOMAIN s = 1 .. Len(s) /\ DOMAIN Append(s, e) = 1 .. Len(s) + 1
           /\ \A i \in 1 .. Len(s) : Append(s, e)[i] = s[i]
           /\ Append(s, e)[Len(s) + 1] = e
<1>1. Append(s, e) \in Seq(S) /\ Len(Append(s, e)) = Len(s) + 1 /\ Len(s) \in Nat
  OBVIOUS
<1>2. DOMAIN s = 1 .. Len(s) /\ DOMAIN Append(s, e) = 1 .. Len(s) + 1
  BY <1>1, LenProperties
<1> QED  BY <1>1, <1>2

(* A sequence without its k-th element. *)
LEMMA Removed ==
    ASSUME NEW S, NEW s \in Seq(S), NEW k \in DOMAIN s
    PROVE  /\ RemoveAt(s, k) \in Seq(S) /\ Len(s) \in Nat /\ k \in 1 .. Len(s)
           /\ DOMAIN s = 1 .. Len(s) /\ DOMAIN RemoveAt(s, k) = 1 .. Len(s) - 1
           /\ \A i \in 1 .. Len(s) - 1 : RemoveAt(s, k)[i] = IF i < k THEN s[i] ELSE s[i + 1]
<1>1. Len(s) \in Nat /\ DOMAIN s = 1 .. Len(s) /\ k \in 1 .. Len(s) /\ k \in Nat
  BY LenProperties
<1> DEFINE a == SubSeq(s, 1, k - 1)
           b == SubSeq(s, k + 1, Len(s))
<1>2. a \in Seq(S) /\ Len(a) = k - 1 /\ \A i \in 1 .. k - 1 : a[i] = s[i]
  BY <1>1
<1>3. b \in Seq(S) /\ Len(b) = Len(s) - k /\ \A i \in 1 .. Len(s) - k : b[i] = s[i + k]
  BY <1>1
<1>4. RemoveAt(s, k) = a \o b
  BY DEF RemoveAt
<1> HIDE DEF a, b
<1>5. /\ a \o b \in Seq(S) /\ Len(a \o b) = Len(a) + Len(b)
      /\ \A i \in 1 .. Len(a) + Len(b) : (a \o b)[i] = IF i <= Len(a) THEN a[i] ELSE b[i - Len(a)]
  BY <1>2, <1>3, ConcatProperties
<1>6. ASSUME NEW i \in 1 .. Len(s) - 1 PROVE (a \o b)[i] = IF i < k THEN s[i] ELSE s[i + 1]
  <2>1. CASE i < k
    BY <1>1, <1>2, <1>3, <1>5, <2>1
  <2>2. CASE ~(i < k)
    <3>1. i - (k - 1) \in 1 .. Len(s) - k /\ (i - (k - 1)) + k = i + 1
      BY <1>1, <2>2
    <3>2. i \in 1 .. Len(a) + Len(b) /\ ~(i <= Len(a))
      BY <1>1, <1>2, <1>3, <2>2
    <3>3. (a \o b)[i] = b[i - Len(a)]
      BY <1>5, <3>2
    <3> QED  BY <1>2, <1>3, <2>2, <3>1, <3>3
  <2> QED  BY <2>1, <2>2
<1>7. a \o b \in Seq(S) /\ Len(a \o b) = Len(s) - 1
  BY <1>1, <1>2, <1>3, <1>5
<1> QED  BY <1>1, <1>4, <1>6, <1>7, LenProperties

(* What is pending is an element of what the caller asks for. *)
LEMMA PendingOf ==
    ASSUME NEW S, NEW s \in Seq(S), NEW n \in Nat, SubSeq(s, n + 1, Len(s)) # << >>
    PROVE  Head(SubSeq(s, n + 1, Len(s))) \in S /\ s # << >>
<1>1. SubSeq(s, n + 1, Len(s)) \in Seq(S)
  OBVIOUS
<1>2. s = << >> => Len(SubSeq(s, n + 1, Len(s))) = 0
  OBVIOUS
<1> QED  BY <1>1, <1>2, EmptySeq, HeadTailProperties

-----------------------------------------------------------------------------
(* Types *)

(* The states of a job differ. *)
LEMMA StatesDiffer ==
    /\ Vacant # Poisoned /\ Vacant.tag = "vacant" /\ Poisoned.tag = "poisoned"
    /\ Vacant \in JobStates /\ Poisoned \in JobStates
    /\ \A p \in Callers : /\ Started(p) \in JobStates
                          /\ Started(p).tag = "started" /\ Started(p).parent = p
                          /\ Started(p) # Vacant /\ Started(p) # Poisoned
    /\ \A s \in JobStates : s # Vacant /\ s # Poisoned => s.tag = "started"
<1>1. /\ Vacant # Poisoned /\ Vacant.tag = "vacant" /\ Poisoned.tag = "poisoned"
      /\ Vacant \in JobStates /\ Poisoned \in JobStates
  BY DEF Vacant, Poisoned, JobStates
<1>2. ASSUME NEW p \in Callers
      PROVE  /\ Started(p) \in JobStates
             /\ Started(p).tag = "started" /\ Started(p).parent = p
             /\ Started(p) # Vacant /\ Started(p) # Poisoned
  <2>1. Started(p).tag = "started" /\ Started(p).parent = p
    BY DEF Started
  <2>2. Started(p) # Vacant /\ Started(p) # Poisoned
    BY <1>1, <2>1
  <2>3. Started(p) \in JobStates
    BY DEF JobStates
  <2> QED  BY <2>1, <2>2, <2>3
<1>3. ASSUME NEW s \in JobStates, s # Vacant, s # Poisoned PROVE s.tag = "started"
  <2>1. PICK p \in Callers : s = Started(p)
    BY <1>3 DEF JobStates
  <2> QED  BY <1>2, <2>1
<1> QED  BY <1>1, <1>2, <1>3

(* The job t executes and what it asks for next. *)
LEMMA JobFacts ==
    ASSUME Types, NEW t \in Threads
    PROVE  /\ CurrentJob(t) \in Callers
           /\ stack[t] # << >> => /\ CurrentJob(t) \in Queries
                                  /\ Len(stack[t]) \in DOMAIN stack[t]
                                  /\ CurrentJob(t) = stack[t][Len(stack[t])]
           /\ Pending(t) # << >> => /\ Head(Pending(t)) \in Queries
                                    /\ stack[t] = << >> => world.roots[t] # << >>
<1>a. /\ stack[t] \in Seq(Queries) /\ rooted[t] \in Nat /\ at \in [Queries -> Nat]
      /\ world.roots[t] \in Seq(Queries) /\ world.calls \in [Queries -> Seq(Queries)]
  BY QueryAssumption DEF Types
<1>1. CurrentJob(t) \in Callers
  BY <1>a, FrontLast DEF CurrentJob, Callers
<1>2. stack[t] # << >> => /\ CurrentJob(t) \in Queries
                          /\ Len(stack[t]) \in DOMAIN stack[t]
                          /\ CurrentJob(t) = stack[t][Len(stack[t])]
  <2>1. stack[t] # << >> => /\ Len(stack[t]) \in Nat \ {0} /\ DOMAIN stack[t] = 1 .. Len(stack[t])
                            /\ Last(stack[t]) \in Queries /\ Last(stack[t]) = stack[t][Len(stack[t])]
    BY <1>a, FrontLast
  <2> QED  BY <2>1 DEF CurrentJob
<1>3. ASSUME stack[t] = << >>, Pending(t) # << >>
      PROVE  Head(Pending(t)) \in Queries /\ world.roots[t] # << >>
  BY <1>a, <1>3, PendingOf DEF Pending
<1>4. ASSUME stack[t] # << >>, Pending(t) # << >>
      PROVE  Head(Pending(t)) \in Queries
  <2> DEFINE q == CurrentJob(t)
  <2>1. world.calls[q] \in Seq(Queries) /\ at[q] \in Nat
    BY <1>a, <1>2, <1>4
  <2>2. Pending(t) = SubSeq(world.calls[q], at[q] + 1, Len(world.calls[q]))
    BY <1>4 DEF Pending
  <2> HIDE DEF q
  <2> QED  BY <1>4, <2>1, <2>2, PendingOf
<1> QED  BY <1>1, <1>2, <1>3, <1>4

(* What a step leaves alone keeps its type. *)
Typed(t) ==
    /\ pc' \in [Threads -> Labels] /\ target' \in [Threads -> Callers]
    /\ at' \in [Queries -> Nat] /\ rooted' \in [Threads -> Nat]

(* Answering a query, or ending with a cycle error. *)
LEMMA AnsweredTypes ==
    ASSUME Types, NEW t \in Threads
    PROVE  /\ Answered(t) => Typed(t)
           /\ HandleCycleError(t) => Typed(t)
           /\ \A l \in Labels : Goto(t, l) => pc' \in [Threads -> Labels]
<1>a. /\ pc \in [Threads -> Labels] /\ target \in [Threads -> Callers]
      /\ at \in [Queries -> Nat] /\ rooted \in [Threads -> Nat] /\ NoQuery \in Callers
      /\ "run" \in Labels /\ "unwind" \in Labels
  BY DEF Types, Callers, Labels
<1>1. ASSUME Answered(t) PROVE Typed(t)
  <2>1. pc' \in [Threads -> Labels] /\ target' \in [Threads -> Callers]
    BY <1>1, <1>a DEF Answered, Goto
  <2>2. CASE stack[t] = << >>
    BY <1>1, <1>a, <2>1, <2>2 DEF Answered, Typed
  <2>3. CASE stack[t] # << >>
    <3>1. PICK q \in Queries : q = CurrentJob(t)
      BY <2>3, JobFacts
    <3>2. at' = [at EXCEPT ![q] = @ + 1] /\ rooted' = rooted
      BY <1>1, <2>3, <3>1 DEF Answered
    <3> QED  BY <1>a, <2>1, <3>2 DEF Typed
  <2> QED  BY <2>2, <2>3
<1>2. HandleCycleError(t) => Typed(t)
  BY <1>a, <1>1 DEF HandleCycleError, Goto, Typed
<1> QED  BY <1>a, <1>1, <1>2 DEF Goto

(* The shapes of a latch. *)
LEMMA LatchShapes ==
    /\ NoLatch \in Latches /\ NewLatch \in Latches /\ SetLatch \in Latches
    /\ ~NoLatch.made /\ ~NoLatch.complete /\ NoLatch.waiters = << >>
    /\ NewLatch.made /\ ~NewLatch.complete /\ NewLatch.waiters = << >>
    /\ SetLatch.made /\ SetLatch.complete /\ SetLatch.waiters = << >>
<1>1. << >> \in Seq([thread : Threads, query : Callers])
  BY EmptySeq
<1> QED  BY <1>1 DEF NoLatch, NewLatch, SetLatch, Latches

(* A latch with other waiters. *)
LEMMA LatchWaiters ==
    ASSUME Types, NEW q \in Queries, NEW s \in Seq([thread : Threads, query : Callers]),
           latch' = [latch EXCEPT ![q].waiters = s]
    PROVE  /\ latch' \in [Queries -> Latches]
           /\ \A r \in Queries \ {q} : latch'[r] = latch[r]
           /\ latch'[q].made = latch[q].made /\ latch'[q].complete = latch[q].complete
           /\ latch'[q].waiters = s
<1>1. latch \in [Queries -> Latches]
  BY DEF Types
<1>2. /\ latch' \in [Queries -> Latches]
      /\ latch'[q].made = latch[q].made /\ latch'[q].complete = latch[q].complete
      /\ latch'[q].waiters = s
  BY <1>1 DEF Latches
<1> QED  BY <1>1, <1>2

(* The latch after a signal, and who is resumed by it. *)
LEMMA SignalTypes ==
    ASSUME Types, NEW t \in Threads, NEW q \in Queries, NEW l \in Labels, SignalComplete(t, q, l)
    PROVE  latch' \in [Queries -> Latches] /\ pc' \in [Threads -> Labels]
<1>a. latch \in [Queries -> Latches] /\ pc \in [Threads -> Labels] /\ "resumed" \in Labels
  BY DEF Types, Labels
<1>1. latch' = IF latch[q].made THEN [latch EXCEPT ![q] = SetLatch] ELSE latch
  BY DEF SignalComplete
<1>2. SetLatch \in Latches
  BY LatchShapes
<1>3. latch' \in [Queries -> Latches]
  BY <1>a, <1>1, <1>2
<1> DEFINE woken == {latch[q].waiters[i].thread : i \in DOMAIN latch[q].waiters}
<1>4. pc' = [u \in Threads |-> IF u \in woken THEN "resumed" ELSE IF u = t THEN l ELSE pc[u]]
  BY DEF SignalComplete
<1> HIDE DEF woken
<1> QED  BY <1>a, <1>3, <1>4

(* A call of the handler with other jobs and another wakelist. *)
LEMMA CallChanged ==
    ASSUME handlers \in Seq(HandlerCalls), NEW i \in DOMAIN handlers,
           NEW J \in SUBSET Queries, NEW W \in SUBSET Threads,
           handlers' = [handlers EXCEPT ![i].jobs = J, ![i].wakelist = W]
    PROVE  /\ handlers' \in Seq(HandlerCalls) /\ DOMAIN handlers' = DOMAIN handlers
           /\ handlers'[i].wakelist = W
           /\ \A j \in DOMAIN handlers \ {i} : handlers'[j] = handlers[j]
<1>1. handlers[i] \in HandlerCalls
  BY LenProperties, ElementOfSeq
<1>2. [handlers[i] EXCEPT !.jobs = J, !.wakelist = W] \in HandlerCalls
  BY <1>1 DEF HandlerCalls
<1>3. [handlers[i] EXCEPT !.jobs = J, !.wakelist = W].wakelist = W
  BY <1>1 DEF HandlerCalls
<1>4. handlers' = [handlers EXCEPT ![i] = [handlers[i] EXCEPT !.jobs = J, !.wakelist = W]]
  OBVIOUS
<1>5. handlers' \in Seq(HandlerCalls)
  <2>1. PICK h \in HandlerCalls : h = [handlers[i] EXCEPT !.jobs = J, !.wakelist = W]
    BY <1>2
  <2>2. i \in 1 .. Len(handlers)
    BY LenProperties
  <2>3. [handlers EXCEPT ![i] = h] \in Seq(HandlerCalls)
    BY <2>2, ExceptSeq
  <2> QED  BY <1>4, <2>1, <2>3
<1> QED  BY <1>3, <1>4, <1>5

(* remove_cycle takes one waiter off a latch for its wakelist, or changes   *)
(* no latch at all.                                                         *)
LEMMA ResumesWaiter ==
    ASSUME handlers \in Seq(HandlerCalls), NEW i \in DOMAIN handlers, RemoveCycle(i)
    PROVE  \/ /\ latch' = latch /\ cycle' = cycle
              /\ \/ handlers' = handlers
                 \/ \E J \in SUBSET Queries :
                      handlers' = [handlers EXCEPT ![i].jobs = J,
                                                   ![i].wakelist = handlers[i].wakelist]
           \/ \E q \in Queries : \E k \in DOMAIN latch[q].waiters :
                /\ latch' = [latch EXCEPT ![q].waiters = RemoveAt(@, k)]
                /\ cycle' = cycle \union {latch[q].waiters[k].thread}
                /\ \E J \in SUBSET Queries :
                     handlers' = [handlers EXCEPT
                       ![i].jobs = J,
                       ![i].wakelist = handlers[i].wakelist \union {latch[q].waiters[k].thread}]
<1>0. handlers[i] \in HandlerCalls
  BY LenProperties, ElementOfSeq
<1>h. handlers[i].jobs \subseteq Queries
  BY <1>0 DEF HandlerCalls
<1>1. PICK j \in handlers[i].jobs :
         LET r == CycleCheck(handlers[i], j)
             w == r.waiter
             t == latch[w.query].waiters[w.index].thread
         IN  \/ /\ latch' = latch /\ cycle' = cycle
                /\ handlers' = handlers \/ handlers' = [handlers EXCEPT ![i].jobs = @ \ {j}]
             \/ /\ CanResume(handlers[i], r)
                /\ handlers' = [handlers EXCEPT ![i].jobs = @ \ (r.members \union {j}),
                                                ![i].wakelist = @ \union {t}]
                /\ latch' = [latch EXCEPT ![w.query].waiters = RemoveAt(@, w.index)]
                /\ cycle' = cycle \union {t}
  BY DEF RemoveCycle
<1> DEFINE r == CycleCheck(handlers[i], j)
           w == r.waiter
           t == latch[w.query].waiters[w.index].thread
<1>2. CASE latch' = latch /\ cycle' = cycle /\ handlers' = handlers
  BY <1>2
<1>3. CASE /\ latch' = latch /\ cycle' = cycle
           /\ handlers' = [handlers EXCEPT ![i].jobs = @ \ {j}]
  <2>1. handlers' = [handlers EXCEPT ![i].jobs = handlers[i].jobs \ {j},
                                     ![i].wakelist = handlers[i].wakelist]
    BY <1>0, <1>3 DEF HandlerCalls
  <2> QED  BY <1>3, <1>h, <2>1
<1>4. CASE /\ CanResume(handlers[i], r)
           /\ handlers' = [handlers EXCEPT ![i].jobs = @ \ (r.members \union {j}),
                                           ![i].wakelist = @ \union {t}]
           /\ latch' = [latch EXCEPT ![w.query].waiters = RemoveAt(@, w.index)]
           /\ cycle' = cycle \union {t}
  <2>1. w.query \in Queries /\ w.index \in DOMAIN latch[w.query].waiters
    BY <1>4 DEF CanResume
  <2>2. PICK J \in SUBSET Queries : J = handlers[i].jobs \ (r.members \union {j})
    BY <1>h
  <2>3. handlers' = [handlers EXCEPT ![i].jobs = J,
                                     ![i].wakelist = handlers[i].wakelist \union {t}]
    BY <1>4, <2>2
  <2>4. PICK q \in Queries : q = w.query
    BY <2>1
  <2>5. PICK k \in DOMAIN latch[q].waiters : k = w.index
    BY <2>1, <2>4
  <2>6. /\ latch' = [latch EXCEPT ![q].waiters = RemoveAt(@, k)]
        /\ cycle' = cycle \union {latch[q].waiters[k].thread}
    BY <1>4, <2>4, <2>5
  <2>7. handlers' = [handlers EXCEPT
                       ![i].jobs = J,
                       ![i].wakelist = handlers[i].wakelist \union {latch[q].waiters[k].thread}]
    BY <2>3, <2>4, <2>5
  <2> HIDE DEF r, w, t
  <2> QED  BY <2>6, <2>7, Zenon
<1> HIDE DEF r, w, t
<1>5. \/ /\ latch' = latch /\ cycle' = cycle
         /\ handlers' = handlers \/ handlers' = [handlers EXCEPT ![i].jobs = @ \ {j}]
      \/ /\ CanResume(handlers[i], r)
         /\ handlers' = [handlers EXCEPT ![i].jobs = @ \ (r.members \union {j}),
                                         ![i].wakelist = @ \union {t}]
         /\ latch' = [latch EXCEPT ![w.query].waiters = RemoveAt(@, w.index)]
         /\ cycle' = cycle \union {t}
  BY <1>1 DEF r, w, t
<1> QED  BY <1>2, <1>3, <1>4, <1>5

(* Every step keeps the types. *)
LEMMA TypeStep ==
    ASSUME EngineInv, Next
    PROVE  Types'
<1>a. Types /\ \A t \in Threads : Asking(t)
  BY DEF EngineInv
<1>b. /\ world \in Worlds /\ cache \subseteq Queries /\ cycle \subseteq Threads
      /\ active \in [Queries -> JobStates] /\ latch \in [Queries -> Latches]
      /\ stack \in [Threads -> Seq(Queries)] /\ at \in [Queries -> Nat]
      /\ rooted \in [Threads -> Nat] /\ pc \in [Threads -> Labels]
      /\ target \in [Threads -> Callers] /\ starts \in [Queries -> Nat]
  BY <1>a DEF Types
<1>c. NoQuery \in Callers /\ Queries \subseteq Callers
  BY DEF Callers
<1>1. ASSUME NEW t \in Threads, ThreadStep(t) PROVE Types'
  <2>a. pc[t] \in {"try", "latch", "blocked", "resumed"} => target[t] \in Queries
    BY <1>a DEF Asking
  <2>b. \A l \in Labels : Goto(t, l) => pc' \in [Threads -> Labels]
    BY <1>a, AnsweredTypes
  <2>c. stack[t] # << >> => CurrentJob(t) \in Queries
    BY <1>a, JobFacts
  <2>d. stack[t] # << >> => Front(stack[t]) \in Seq(Queries)
    BY <1>b, FrontLast
  <2>e. pc[t] \in {"cached", "removed", "poisoned"} => stack[t] # << >>
    BY DEF EngineInv, Jobs
  <2>1. CASE GetQuery(t)
    <3>1. Typed(t)
      <4>1. CASE Head(Pending(t)) \in cache
        BY <1>a, <2>1, <4>1, AnsweredTypes DEF GetQuery
      <4>2. CASE Head(Pending(t)) \notin cache
        BY <1>a, <1>b, <1>c, <2>1, <2>b, <4>2, JobFacts DEF GetQuery, Typed, Labels
      <4> QED  BY <4>1, <4>2
    <3> QED  BY <1>b, <2>1, <3>1 DEF GetQuery, Typed, Types
  <2>2. CASE HitUnderLock(t)
    BY <1>a, <1>b, <2>2, AnsweredTypes DEF HitUnderLock, Typed, Types
  <2>3. CASE StartJob(t)
    <3>1. target[t] \in Queries
      BY <2>a, <2>3 DEF StartJob, MissUnderLock
    <3>2. active' \in [Queries -> JobStates]
      BY <1>a, <1>b, <2>3, <3>1, JobFacts, StatesDiffer DEF StartJob
    <3>3. latch' \in [Queries -> Latches]
      BY <1>b, <2>3, <3>1, LatchShapes DEF StartJob
    <3>4. stack' \in [Threads -> Seq(Queries)]
      <4>1. Append(stack[t], target[t]) \in Seq(Queries)
        BY <1>b, <3>1, Appended
      <4>2. stack' = [stack EXCEPT ![t] = Append(stack[t], target[t])]
        BY <2>3 DEF StartJob
      <4> QED  BY <1>b, <4>1, <4>2
    <3>5. at' \in [Queries -> Nat] /\ starts' \in [Queries -> Nat] /\ target' \in [Threads -> Callers]
      BY <1>b, <1>c, <2>3, <3>1 DEF StartJob
    <3>6. pc' \in [Threads -> Labels]
      BY <2>3, <2>b DEF StartJob, Labels
    <3> QED  BY <1>b, <2>3, <3>2, <3>3, <3>4, <3>5, <3>6 DEF StartJob, Types
  <2>4. CASE TakeLatch(t)
    <3>1. latch' \in [Queries -> Latches]
      BY <1>b, <2>4, LatchShapes DEF TakeLatch
    <3>2. pc' \in [Threads -> Labels]
      BY <2>4, <2>b DEF TakeLatch, Labels
    <3> QED  BY <1>b, <2>4, <3>1, <3>2 DEF TakeLatch, Types
  <2>5. CASE RaiseOnPoisoned(t)
    <3>1. pc' \in [Threads -> Labels] /\ target' \in [Threads -> Callers]
      BY <1>b, <1>c, <2>5, <2>b DEF RaiseOnPoisoned, Labels
    <3> QED  BY <1>b, <2>5, <3>1 DEF RaiseOnPoisoned, Types
  <2>6. CASE CycleInStack(t)
    <3>1. Typed(t)
      BY <1>a, <1>b, <2>6, AnsweredTypes DEF CycleInStack, Typed
    <3> QED  BY <1>b, <2>6, <3>1 DEF CycleInStack, Typed, Types
  <2>7. CASE WaitOn(t)
    <3>1. latch' \in [Queries -> Latches]
      <4>1. CASE latch[target[t]].complete
        BY <1>b, <2>7, <4>1 DEF WaitOn
      <4>2. CASE ~latch[target[t]].complete
        <5> DEFINE W == [thread : Threads, query : Callers]
                   w == [thread |-> t, query |-> CurrentJob(t)]
        <5>1. target[t] \in Queries
          BY <2>7, <2>a DEF WaitOn
        <5>2. latch[target[t]].waiters \in Seq(W)
          BY <1>b, <5>1 DEF Latches
        <5>3. w \in W
          BY <1>a, JobFacts
        <5>4. latch' = [latch EXCEPT ![target[t]].waiters = Append(latch[target[t]].waiters, w)]
          BY <2>7, <4>2 DEF WaitOn
        <5> HIDE DEF w
        <5>5. Append(latch[target[t]].waiters, w) \in Seq(W)
          BY <5>2, <5>3, Appended
        <5> QED  BY <1>a, <5>1, <5>4, <5>5, LatchWaiters
      <4> QED  BY <4>1, <4>2
    <3>2. pc' \in [Threads -> Labels]
      BY <2>7, <2>b DEF WaitOn, Labels
    <3> QED  BY <1>b, <2>7, <3>1, <3>2 DEF WaitOn, Types
  <2>8. CASE ResumedWithCycle(t)
    BY <1>a, <1>b, <2>8, AnsweredTypes DEF ResumedWithCycle, Typed, Types
  <2>9. CASE ResumedWithValue(t)
    <3>1. Typed(t)
      BY <1>a, <1>b, <1>c, <2>9, <2>b, AnsweredTypes DEF ResumedWithValue, Typed, Labels
    <3> QED  BY <1>b, <2>9, <3>1 DEF ResumedWithValue, Typed, Types
  <2>10. CASE CompleteCache(t)
    <3>1. pc' \in [Threads -> Labels] /\ cache' \subseteq Queries
      BY <1>b, <2>10, <2>b, <2>c DEF CompleteCache, ProviderDone, Labels
    <3> QED  BY <1>b, <2>10, <3>1 DEF CompleteCache, Types
  <2>11. CASE CompleteRemove(t)
    <3>1. pc' \in [Threads -> Labels] /\ active' \in [Queries -> JobStates]
      BY <1>b, <2>11, <2>b, StatesDiffer DEF CompleteRemove, Labels
    <3> QED  BY <1>b, <2>11, <3>1 DEF CompleteRemove, Types
  <2>12. CASE CompleteSignal(t)
    <3>1. stack[t] # << >> /\ CurrentJob(t) \in Queries
      BY <2>12, <2>c, <2>e DEF CompleteSignal
    <3>2. latch' \in [Queries -> Latches] /\ pc' \in [Threads -> Labels]
      BY <1>a, <2>12, <3>1, SignalTypes DEF CompleteSignal, Labels
    <3>3. stack' \in [Threads -> Seq(Queries)]
      BY <1>b, <2>12, <2>d, <3>1 DEF CompleteSignal
    <3>4. rooted' \in [Threads -> Nat] /\ at' \in [Queries -> Nat]
      <4> DEFINE x == stack[t][Len(stack[t]) - 1]
      <4>1. \/ rooted' = [rooted EXCEPT ![t] = @ + 1] /\ at' = at
            \/ at' = [at EXCEPT ![x] = @ + 1] /\ rooted' = rooted /\ Len(stack[t]) # 1
        BY <2>12 DEF CompleteSignal
      <4>2. Len(stack[t]) # 1 => x \in Queries
        <5>1. stack[t] \in Seq(Queries) /\ Len(stack[t]) \in Nat \ {0}
          BY <1>b, <3>1, FrontLast
        <5>2. \A n \in Nat \ {0} : n # 1 => n - 1 \in 1 .. n
          OBVIOUS
        <5> QED  BY <5>1, <5>2, ElementOfSeq
      <4> HIDE DEF x
      <4>3. CASE rooted' = [rooted EXCEPT ![t] = @ + 1] /\ at' = at
        BY <1>b, <4>3
      <4>4. CASE at' = [at EXCEPT ![x] = @ + 1] /\ rooted' = rooted /\ x \in Queries
        BY <1>b, <4>4
      <4> QED  BY <4>1, <4>2, <4>3, <4>4
    <3> QED  BY <1>b, <2>12, <3>2, <3>3, <3>4 DEF CompleteSignal, Types
  <2>13. CASE ProviderPanics(t)
    <3>1. pc' \in [Threads -> Labels]
      BY <2>13, <2>b DEF ProviderPanics, Labels
    <3> QED  BY <1>b, <2>13, <3>1 DEF ProviderPanics, Types
  <2>14. CASE DropPoison(t)
    <3>1. pc' \in [Threads -> Labels] /\ active' \in [Queries -> JobStates]
      BY <1>b, <2>14, <2>b, StatesDiffer DEF DropPoison, Labels
    <3> QED  BY <1>b, <2>14, <3>1 DEF DropPoison, Types
  <2>15. CASE DropSignal(t)
    <3>1. stack[t] # << >> /\ CurrentJob(t) \in Queries
      BY <2>15, <2>c, <2>e DEF DropSignal
    <3>2. latch' \in [Queries -> Latches] /\ pc' \in [Threads -> Labels]
      BY <1>a, <2>15, <3>1, SignalTypes DEF DropSignal, Labels
    <3>3. stack' \in [Threads -> Seq(Queries)]
      BY <1>b, <2>15, <2>d, <3>1 DEF DropSignal
    <3> QED  BY <1>b, <2>15, <3>2, <3>3 DEF DropSignal, Types
  <2>16. CASE EndThread(t)
    <3>1. pc' \in [Threads -> Labels]
      BY <2>16, <2>b DEF EndThread, Labels
    <3> QED  BY <1>b, <2>16, <3>1 DEF EndThread, Types
  <2> QED
    BY <1>1, <2>1, <2>2, <2>3, <2>4, <2>5, <2>6, <2>7, <2>8, <2>9, <2>10, <2>11, <2>12, <2>13,
       <2>14, <2>15, <2>16 DEF ThreadStep
<1>3. ASSUME NEW i \in DOMAIN handlers, RemoveCycle(i) PROVE Types'
  <2>1. latch' \in [Queries -> Latches] /\ cycle' \subseteq Threads
    <3>1. CASE latch' = latch /\ cycle' = cycle
      BY <1>b, <3>1
    <3>2. ASSUME NEW q \in Queries, NEW k \in DOMAIN latch[q].waiters,
                 latch' = [latch EXCEPT ![q].waiters = RemoveAt(@, k)],
                 cycle' = cycle \union {latch[q].waiters[k].thread}
          PROVE  latch' \in [Queries -> Latches] /\ cycle' \subseteq Threads
      <4> DEFINE W == [thread : Threads, query : Callers]
      <4>0. latch[q].waiters \in Seq(W)
        BY <1>b DEF Latches
      <4> HIDE DEF W
      <4>1. latch[q].waiters \in Seq(W) /\ latch[q].waiters[k] \in W
        BY <4>0, LenProperties, ElementOfSeq
      <4>2. RemoveAt(latch[q].waiters, k) \in Seq(W)
        BY <4>1, Removed
      <4>3. latch' \in [Queries -> Latches]
        BY <1>a, <3>2, <4>2, LatchWaiters DEF W
      <4> QED  BY <1>b, <3>2, <4>1, <4>3 DEF W
    <3>3. \/ latch' = latch /\ cycle' = cycle
          \/ \E q \in Queries : \E k \in DOMAIN latch[q].waiters :
                /\ latch' = [latch EXCEPT ![q].waiters = RemoveAt(@, k)]
                /\ cycle' = cycle \union {latch[q].waiters[k].thread}
      BY <1>3, ResumesWaiter DEF EngineInv, Woken
    <3> QED  BY <3>1, <3>2, <3>3
  <2> QED  BY <1>b, <1>3, <2>1 DEF RemoveCycle, Types
<1>4. ASSUME NEW i \in DOMAIN handlers, Notify(i) PROVE Types'
  <2>1. pc' \in [Threads -> Labels]
    BY <1>b, <1>4 DEF Notify, Goto, Labels
  <2> QED  BY <1>b, <1>4, <2>1 DEF Notify, Types
<1>5. CASE Ended
  BY <1>b, <1>5 DEF Ended, vars, Types
<1> QED  BY <1>1, <1>3, <1>4, <1>5 DEF Next, Deadlock

-----------------------------------------------------------------------------
(* What the invariant says of one job and of one thread *)

(* A build that does not look again has one thread that asks for queries. *)
LEMMA OneAsks ==
    ASSUME EngineInv, ~ManyThreads, NEW t \in Threads, NEW u \in Threads,
           stack[t] # << >> \/ pc[t] \notin {"run", "done"},
           stack[u] # << >> \/ pc[u] \notin {"run", "done"}
    PROVE  t = u
<1>1. world \in Worlds /\ world.roots[t] # << >> /\ world.roots[u] # << >>
  BY DEF EngineInv, Types, Asking
<1>2. CASE ~world.parallel
  BY <1>1, <1>2, QueryAssumption
<1>3. CASE ~(Cardinality(Threads) > 1)
  <2>1. SUFFICES ASSUME t # u PROVE FALSE
    OBVIOUS
  <2>2. IsFiniteSet(Threads) /\ IsFiniteSet(Threads \ {t})
    BY QueryAssumption, FS_RemoveElement
  <2>3. Cardinality(Threads \ {t}) = Cardinality(Threads) - 1 /\ Cardinality(Threads) \in Nat
    BY <2>2, FS_RemoveElement, FS_CardinalityType
  <2>4. Cardinality(Threads \ {t}) \in Nat /\ Cardinality(Threads \ {t}) # 0
    BY <2>1, <2>2, FS_EmptySet, FS_CardinalityType
  <2> QED  BY <1>3, <2>3, <2>4
<1> QED  BY <1>2, <1>3 DEF ManyThreads

(* The innermost job of t. *)
LEMMA Innermost ==
    ASSUME EngineInv, NEW t \in Threads, stack[t] # << >>
    PROVE  /\ CurrentJob(t) \in Queries /\ OnStack(CurrentJob(t))
           /\ pc[t] \notin {"removed", "poisoned"} =>
                 \E p \in Callers : active[CurrentJob(t)] = Started(p)
           /\ pc[t] = "removed" => active[CurrentJob(t)] = Vacant
           /\ pc[t] = "poisoned" => active[CurrentJob(t)] = Poisoned
           /\ CurrentJob(t) \in cache <=> pc[t] \in {"cached", "removed"}
           /\ starts[CurrentJob(t)] = 1
<1> DEFINE n == Len(stack[t])
<1>1. /\ n \in DOMAIN stack[t] /\ CurrentJob(t) = stack[t][n] /\ CurrentJob(t) \in Queries
  BY JobFacts DEF EngineInv
<1>2. JobOf(t, n)
  BY <1>1 DEF EngineInv, Jobs
<1>3. Parent(t, n) \in Callers
  <2>1. stack[t] \in Seq(Queries) /\ n \in Nat \ {0}
    BY FrontLast DEF EngineInv, Types
  <2>2. \A m \in Nat \ {0} : m # 1 => m - 1 \in 1 .. m
    OBVIOUS
  <2> HIDE DEF n
  <2>3. n # 1 => stack[t][n - 1] \in Queries
    BY <2>1, <2>2, ElementOfSeq DEF n
  <2> QED  BY <2>3 DEF Parent, Callers
<1>4. Queried(CurrentJob(t))
  BY <1>1 DEF EngineInv
<1>5. OnStack(CurrentJob(t))
  BY <1>1 DEF OnStack
<1>6. /\ pc[t] \notin {"removed", "poisoned"} => active[CurrentJob(t)] = Started(Parent(t, n))
      /\ pc[t] = "removed" => active[CurrentJob(t)] = Vacant
      /\ pc[t] = "poisoned" => active[CurrentJob(t)] = Poisoned
      /\ CurrentJob(t) \in cache <=> pc[t] \in {"cached", "removed"}
  BY <1>1, <1>2 DEF JobOf, Leaving
<1>7. starts[CurrentJob(t)] = 1
  BY <1>3, <1>4, <1>6, StatesDiffer DEF Queried
<1> QED  BY <1>1, <1>3, <1>5, <1>6, <1>7

(* A query on a stack has been started. *)
LEMMA OnStackStarted ==
    ASSUME EngineInv, NEW q \in Queries, OnStack(q)
    PROVE  q \in cache \/ active[q] # Vacant
<1>1. PICK t \in Threads : \E i \in DOMAIN stack[t] : stack[t][i] = q
  BY DEF OnStack
<1>2. PICK i \in DOMAIN stack[t] : stack[t][i] = q
  BY <1>1
<1>3. JobOf(t, i)
  BY DEF EngineInv, Jobs
<1>4. Parent(t, i) \in Callers
  <2>1. stack[t] \in Seq(Queries) /\ i \in 1 .. Len(stack[t]) /\ Len(stack[t]) \in Nat
    BY LenProperties DEF EngineInv, Types
  <2>2. i # 1 => i - 1 \in 1 .. Len(stack[t])
    BY <2>1
  <2>3. i # 1 => stack[t][i - 1] \in Queries
    BY <2>1, <2>2, ElementOfSeq
  <2> QED  BY <2>3 DEF Parent, Callers
<1> QED  BY <1>2, <1>3, <1>4, StatesDiffer DEF JobOf, Leaving

(* A query that nobody computes and the cache does not have was never       *)
(* started: it is on no stack, and nobody has its latch.                    *)
LEMMA Fresh ==
    ASSUME EngineInv, NEW q \in Queries, active[q] = Vacant, q \notin cache
    PROVE  /\ starts[q] = 0 /\ ~OnStack(q) /\ ~latch[q].made /\ latch[q].waiters = << >>
           /\ ~Over(q)
<1>1. Queried(q)
  BY DEF EngineInv
<1>2. ~OnStack(q) /\ ~Over(q)
  BY OnStackStarted, StatesDiffer DEF Over
<1>3. latch[q].made \in BOOLEAN /\ latch[q].complete \in BOOLEAN
  BY DEF EngineInv, Types, Latches
<1> QED  BY <1>1, <1>2, <1>3 DEF Queried

(* The waiters of a latch. *)
LEMMA WaiterThreads ==
    ASSUME Types, NEW q \in Queries
    PROVE  /\ latch[q].waiters \in Seq([thread : Threads, query : Callers])
           /\ \A i \in DOMAIN latch[q].waiters : latch[q].waiters[i].thread \in Threads
           /\ latch[q].made \in BOOLEAN /\ latch[q].complete \in BOOLEAN
<1> DEFINE W == [thread : Threads, query : Callers]
<1>1. latch[q].waiters \in Seq(W) /\ latch[q].made \in BOOLEAN /\ latch[q].complete \in BOOLEAN
  BY DEF Types, Latches
<1>2. \A w \in W : w.thread \in Threads
  OBVIOUS
<1> HIDE DEF W
<1>3. \A i \in DOMAIN latch[q].waiters : latch[q].waiters[i] \in W
  BY <1>1, LenProperties, ElementOfSeq
<1> QED  BY <1>1, <1>2, <1>3 DEF W

-----------------------------------------------------------------------------
(* Steps of a thread that touch no job and no latch *)

Quiet(t) ==
    /\ UNCHANGED <<world, cache, active, latch, stack, starts>>
    /\ \A u \in Threads \ {t} : /\ pc'[u] = pc[u] /\ target'[u] = target[u]
                                /\ u \in cycle' <=> u \in cycle
    /\ t \notin cycle'
    /\ pc[t] \in {"run", "try", "resumed", "unwind"}
    /\ pc'[t] \in {"run", "try", "unwind", "done", "panicked"}
    /\ pc'[t] = "try" => target'[t] \in Queries \ cache
    /\ pc'[t] \in {"done", "panicked"} => stack[t] = << >>
    /\ pc'[t] \notin {"run", "done"} => world.roots[t] # << >>

(* The steps that are quiet, and the search of the serial build finds its   *)
(* query.                                                                   *)
LEMMA QuietSteps ==
    ASSUME EngineInv, NEW t \in Threads,
           \/ GetQuery(t) \/ HitUnderLock(t) \/ RaiseOnPoisoned(t) \/ CycleInStack(t)
           \/ ResumedWithCycle(t) \/ ResumedWithValue(t) \/ ProviderPanics(t) \/ EndThread(t)
    PROVE  Quiet(t) /\ failure' = failure
<1>a. /\ pc \in [Threads -> Labels] /\ target \in [Threads -> Callers] /\ Types
  BY DEF EngineInv, Types
<1>b. /\ t \in cycle => pc[t] \in {"blocked", "resumed"}
      /\ pc[t] \notin {"run", "done"} => world.roots[t] # << >>
      /\ stack[t] # << >> => world.roots[t] # << >>
  BY DEF EngineInv, Asking
<1>c. Answered(t) => /\ pc'[t] = "run"
                     /\ \A u \in Threads \ {t} : pc'[u] = pc[u] /\ target'[u] = target[u]
  BY <1>a DEF Answered, Goto
<1>d. HandleCycleError(t) => /\ pc'[t] \in {"run", "unwind"}
                             /\ \A u \in Threads \ {t} : pc'[u] = pc[u] /\ target'[u] = target[u]
  BY <1>a, <1>c DEF HandleCycleError, Goto
<1>1. CASE GetQuery(t)
  <2>1. CASE Head(Pending(t)) \in cache
    BY <1>1, <1>b, <1>c, <2>1 DEF GetQuery, Quiet
  <2>2. CASE Head(Pending(t)) \notin cache
    <3>1. Head(Pending(t)) \in Queries /\ world.roots[t] # << >>
      BY <1>1, <1>a, <1>b, JobFacts DEF GetQuery
    <3> QED  BY <1>1, <1>a, <1>b, <2>2, <3>1 DEF GetQuery, Goto, Quiet
  <2> QED  BY <2>1, <2>2
<1>2. CASE HitUnderLock(t)
  BY <1>2, <1>b, <1>c DEF HitUnderLock, Quiet
<1>3. CASE RaiseOnPoisoned(t)
  BY <1>3, <1>a, <1>b DEF RaiseOnPoisoned, MissUnderLock, Goto, Quiet
<1>4. CASE CycleInStack(t)
  <2>1. pc[t] = "try" /\ ~ManyThreads /\ target[t] \in Queries /\ active[target[t]].tag = "started"
    BY <1>4 DEF CycleInStack, MissUnderLock, ManyThreads, EngineInv, Asking
  <2>2. OnStack(target[t])
    BY <2>1 DEF EngineInv, Queried
  <2>3. PICK u \in Threads : \E i \in DOMAIN stack[u] : stack[u][i] = target[t]
    BY <2>2 DEF OnStack
  <2>4. stack[u] # << >>
    BY <2>3
  <2>5. u = t
    BY <2>1, <2>4, OneAsks
  <2>6. HandleCycleError(t) /\ failure' = failure
    BY <1>4, <2>3, <2>5 DEF CycleInStack
  <2> QED  BY <1>4, <1>b, <1>d, <2>1, <2>6 DEF CycleInStack, Quiet
<1>5. CASE ResumedWithCycle(t)
  BY <1>5, <1>b, <1>d DEF ResumedWithCycle, Quiet
<1>6. CASE ResumedWithValue(t)
  BY <1>6, <1>a, <1>b, <1>c DEF ResumedWithValue, Goto, Quiet
<1>7. CASE ProviderPanics(t)
  BY <1>7, <1>a, <1>b DEF ProviderPanics, ProviderDone, Goto, Quiet
<1>8. CASE EndThread(t)
  BY <1>8, <1>a, <1>b DEF EndThread, Goto, Quiet
<1> QED  BY <1>1, <1>2, <1>3, <1>4, <1>5, <1>6, <1>7, <1>8

(* They keep the invariant. *)
LEMMA QuietKeeps ==
    ASSUME EngineInv, NEW t \in Threads, Quiet(t)
    PROVE  Jobs' /\ (\A q \in Queries : Queried(q)') /\ (\A u \in Threads : Asking(u)')
<1>a. Jobs /\ (\A q \in Queries : Queried(q)) /\ (\A u \in Threads : Asking(u))
  BY DEF EngineInv
<1>b. /\ world' = world /\ cache' = cache /\ active' = active /\ latch' = latch /\ stack' = stack
      /\ starts' = starts
  BY DEF Quiet
<1>1. Jobs'
  <2>1. ASSUME NEW u \in Threads, NEW i \in DOMAIN stack[u] PROVE JobOf(u, i)'
    <3>1. JobOf(u, i)
      BY <1>a DEF Jobs
    <3>2. \/ pc'[u] = pc[u]
          \/ pc[u] \notin {"cached", "removed", "poisoned"} /\ pc'[u] \notin {"cached", "removed", "poisoned"}
      BY DEF Quiet
    <3> QED  BY <1>b, <3>1, <3>2 DEF JobOf, Leaving, Parent
  <2>2. \A u \in Threads : pc'[u] \in {"cached", "removed", "poisoned"} => stack[u] # << >>
    BY <1>a DEF Jobs, Quiet
  <2>3. \A u \in Threads : pc'[u] \in {"done", "panicked"} => stack[u] = << >>
    BY <1>a DEF Jobs, Quiet
  <2> QED  BY <1>a, <1>b, <2>1, <2>2, <2>3 DEF Jobs
<1>2. ASSUME NEW q \in Queries PROVE Queried(q)'
  <2>1. Queried(q) /\ (OnStack(q)' <=> OnStack(q)) /\ (Over(q)' <=> Over(q))
    BY <1>a, <1>b DEF OnStack, Over
  <2>2. \A u \in Threads : pc[u] = "blocked" => pc'[u] = "blocked" /\ target'[u] = target[u]
                                              /\ (u \in cycle' <=> u \in cycle)
    BY DEF Quiet
  <2>3. \A i \in DOMAIN latch[q].waiters : latch[q].waiters[i].thread \in Threads
    BY WaiterThreads DEF EngineInv
  <2> QED  BY <1>b, <2>1, <2>2, <2>3 DEF Queried
<1>3. ASSUME NEW u \in Threads PROVE Asking(u)'
  <2>1. Asking(u) /\ (\A q : Over(q)' <=> Over(q)) /\ (ManyThreads' <=> ManyThreads)
    BY <1>a, <1>b DEF Over, ManyThreads
  <2>2. CASE u = t
    BY <1>b, <2>1, <2>2 DEF Asking, Quiet
  <2>3. CASE u # t
    BY <1>b, <2>1, <2>3 DEF Asking, Quiet
  <2> QED  BY <2>2, <2>3
<1> QED  BY <1>1, <1>2, <1>3

-----------------------------------------------------------------------------
(* Steps that start, complete or poison a job *)

(* Only t moves. *)
Moves(t) ==
    /\ \A u \in Threads \ {t} : pc'[u] = pc[u] /\ target'[u] = target[u]
    /\ world' = world /\ cycle' = cycle

(* A job is started: its query is on no stack and nobody has its latch. *)
LEMMA Starting ==
    ASSUME EngineInv, NEW t \in Threads, StartJob(t)
    PROVE  Jobs' /\ (\A q \in Queries : Queried(q)') /\ (\A u \in Threads : Asking(u)')
<1>a. Types /\ Jobs /\ (\A q \in Queries : Queried(q)) /\ (\A u \in Threads : Asking(u))
  BY DEF EngineInv
<1>k. PICK k \in Queries : k = target[t]
  BY <1>a DEF StartJob, MissUnderLock, Asking
<1>n. PICK n \in Nat : n = Len(stack[t])
  BY <1>a DEF Types
<1>b. /\ pc[t] = "try" /\ k \in Queries /\ active[k] = Vacant /\ k \notin cache
      /\ t \notin cycle /\ world.roots[t] # << >>
  BY <1>a, <1>k DEF StartJob, MissUnderLock, Asking
<1>c. /\ starts[k] = 0 /\ ~OnStack(k) /\ ~latch[k].made /\ latch[k].waiters = << >> /\ ~Over(k)
  BY <1>b, Fresh
<1>d. Moves(t) /\ pc'[t] = "run" /\ target'[t] = NoQuery /\ cache' = cache
  BY <1>a DEF StartJob, Moves, Goto, Types
<1>e. /\ active'[k] = Started(CurrentJob(t)) /\ \A q \in Queries \ {k} : active'[q] = active[q]
      /\ latch'[k] = NoLatch /\ \A q \in Queries \ {k} : latch'[q] = latch[q]
      /\ starts'[k] = 1 /\ \A q \in Queries \ {k} : starts'[q] = starts[q]
  BY <1>a, <1>b, <1>c, <1>k DEF StartJob, Types
<1>f. /\ stack[t] \in Seq(Queries) /\ n \in Nat /\ DOMAIN stack[t] = 1 .. n
      /\ Len(stack'[t]) = n + 1 /\ DOMAIN stack'[t] = 1 .. n + 1 /\ stack'[t][n + 1] = k
      /\ \A i \in 1 .. n : stack'[t][i] = stack[t][i]
      /\ \A u \in Threads \ {t} : stack'[u] = stack[u]
  <2>1. stack' = [stack EXCEPT ![t] = Append(stack[t], k)] /\ stack \in [Threads -> Seq(Queries)]
    BY <1>a, <1>k DEF StartJob, Types
  <2>2. stack'[t] = Append(stack[t], k) /\ \A u \in Threads \ {t} : stack'[u] = stack[u]
    BY <2>1
  <2>3. stack[t] \in Seq(Queries)
    BY <2>1
  <2> QED  BY <1>b, <1>n, <2>2, <2>3, Appended
<1>g. \A u \in Threads : \A i \in DOMAIN stack[u] :
         i \in DOMAIN stack'[u] /\ stack'[u][i] = stack[u][i] /\ stack[u][i] # k /\ stack[u][i] \in Queries
  <2>1. ASSUME NEW u \in Threads, NEW i \in DOMAIN stack[u] PROVE stack[u][i] # k /\ stack[u][i] \in Queries
    BY <1>a, <1>c, LenProperties, ElementOfSeq DEF OnStack, Types
  <2>2. 1 .. n \subseteq 1 .. n + 1
    BY <1>f
  <2> QED  BY <1>f, <2>1, <2>2
<1>h. stack'[t] # << >>
  <2>1. n + 1 # 0
    BY <1>f
  <2> QED  BY <1>f, <2>1
<1>1. Jobs'
  <2>1. ASSUME NEW u \in Threads, NEW i \in DOMAIN stack'[u] PROVE JobOf(u, i)'
    <3>1. CASE u # t
      <4>1. JobOf(u, i) /\ stack[u][i] # k /\ stack[u][i] \in Queries /\ stack'[u] = stack[u] /\ pc'[u] = pc[u]
        BY <1>a, <1>d, <1>f, <1>g, <3>1 DEF Jobs, Moves
      <4> QED  BY <1>d, <1>e, <4>1 DEF JobOf, Leaving, Parent
    <3>2. CASE u = t /\ i \in 1 .. n
      <4>1. /\ JobOf(t, i) /\ stack[t][i] # k /\ stack[t][i] \in Queries /\ stack'[t][i] = stack[t][i]
        BY <1>a, <1>f, <1>g, <3>2 DEF Jobs
      <4>2. i = 1 \/ i - 1 \in 1 .. n
        BY <1>f, <3>2
      <4>3. Parent(t, i)' = Parent(t, i)
        BY <1>f, <4>2 DEF Parent
      <4> QED  BY <1>b, <1>d, <1>e, <1>f, <1>n, <3>2, <4>1, <4>3 DEF JobOf, Leaving
    <3>3. CASE u = t /\ i = n + 1
      <4>1. Parent(t, n + 1)' = CurrentJob(t)
        <5>1. CASE stack[t] = << >>
          BY <1>f, <1>n, <5>1 DEF Parent, CurrentJob
        <5>2. CASE stack[t] # << >>
          <6>1. n # 0 /\ CurrentJob(t) = stack[t][n]
            BY <1>a, <1>f, <1>n, <5>2, JobFacts, EmptySeq
          <6>2. n \in 1 .. n /\ n + 1 # 1 /\ (n + 1) - 1 = n
            BY <1>f, <6>1
          <6> QED  BY <1>f, <6>1, <6>2 DEF Parent
        <5> QED  BY <5>1, <5>2
      <4> QED  BY <1>b, <1>d, <1>e, <1>f, <3>3, <4>1 DEF JobOf, Leaving
    <3>4. u = t => i \in 1 .. n \/ i = n + 1
      BY <1>f
    <3> QED  BY <3>1, <3>2, <3>3, <3>4
  <2>2. ASSUME NEW u \in Threads, NEW v \in Threads, NEW i \in DOMAIN stack'[u],
               NEW j \in DOMAIN stack'[v], stack'[u][i] = stack'[v][j]
        PROVE  u = v /\ i = j
    <3>1. /\ i \in DOMAIN stack[u] \/ (u = t /\ i = n + 1)
          /\ j \in DOMAIN stack[v] \/ (v = t /\ j = n + 1)
      BY <1>f
    <3> QED  BY <1>a, <1>f, <1>g, <2>2, <3>1 DEF Jobs
  <2>3. \A u \in Threads : /\ pc'[u] \in {"cached", "removed", "poisoned"} => stack'[u] # << >>
                           /\ pc'[u] \in {"done", "panicked"} => stack'[u] = << >>
    BY <1>a, <1>d, <1>f DEF Jobs, Moves
  <2> QED  BY <2>1, <2>2, <2>3 DEF Jobs
<1>2. ASSUME NEW q \in Queries PROVE Queried(q)'
  <2>1. OnStack(q) => OnStack(q)'
    BY <1>g DEF OnStack
  <2>2. OnStack(k)'
    <3>1. n + 1 \in 1 .. n + 1
      BY <1>f
    <3> QED  BY <1>f, <3>1 DEF OnStack
  <2>3. CASE q = k
    <3>1. CurrentJob(t) \in Callers
      BY <1>a, JobFacts
    <3>2. active'[k] # Vacant /\ DOMAIN << >> = {}
      BY <1>e, <3>1, StatesDiffer
    <3> QED  BY <1>d, <1>e, <2>2, <2>3, <3>2, LatchShapes DEF Queried
  <2>4. CASE q # k
    <3>1. Queried(q) /\ active'[q] = active[q] /\ latch'[q] = latch[q] /\ starts'[q] = starts[q]
          /\ (Over(q)' <=> Over(q))
      BY <1>a, <1>d, <1>e, <2>4 DEF Over
    <3>2. \A u \in Threads : pc[u] = "blocked" => pc'[u] = "blocked" /\ target'[u] = target[u]
                                                /\ (u \in cycle' <=> u \in cycle)
      BY <1>b, <1>d DEF Moves
    <3>3. \A i \in DOMAIN latch[q].waiters : latch[q].waiters[i].thread \in Threads
      BY <1>a, WaiterThreads
    <3> QED  BY <1>d, <2>1, <3>1, <3>2, <3>3 DEF Queried
  <2> QED  BY <2>3, <2>4
<1>3. ASSUME NEW u \in Threads PROVE Asking(u)'
  <2>1. CASE u = t
    BY <1>b, <1>d, <2>1 DEF Asking, Moves
  <2>2. CASE u # t
    <3>1. /\ Asking(u) /\ pc'[u] = pc[u] /\ target'[u] = target[u] /\ cycle' = cycle /\ world' = world
          /\ stack'[u] = stack[u] /\ cache' = cache /\ (ManyThreads' <=> ManyThreads)
      BY <1>a, <1>d, <1>f, <2>2 DEF Moves, ManyThreads
    <3>2. pc[u] = "latch" => target[u] # k /\ target[u] \in Queries
      BY <1>c, <3>1 DEF Asking
    <3>3. pc[u] = "blocked" /\ u \notin cycle => target[u] # k /\ target[u] \in Queries
      BY <1>c, <3>1 DEF Asking
    <3>4. pc[u] = "resumed" /\ u \notin cycle => Over(target[u])'
      <4>1. \A q \in Queries : Over(q) => Over(q)'
        BY <1>c, <1>d, <1>e DEF Over
      <4>2. pc[u] = "resumed" /\ u \notin cycle => Over(target[u]) /\ target[u] \in Queries
        BY <3>1 DEF Asking
      <4> QED  BY <3>1, <4>1, <4>2 DEF Over
    <3> QED  BY <1>e, <3>1, <3>2, <3>3, <3>4 DEF Asking
  <2> QED  BY <2>1, <2>2
<1> QED  BY <1>1, <1>2, <1>3

(* Nothing changes for a job whose owner goes from one label to another     *)
(* without completing, dropping or leaving it.                              *)
LEMMA JobsKept ==
    ASSUME Jobs, active' = active, cache' = cache, stack' = stack,
           \A u \in Threads :
              \/ pc'[u] = pc[u]
              \/ /\ pc[u] \notin {"cached", "removed", "poisoned", "done", "panicked"}
                 /\ pc'[u] \notin {"cached", "removed", "poisoned", "done", "panicked"}
    PROVE  Jobs'
<1>1. ASSUME NEW u \in Threads, NEW i \in DOMAIN stack[u] PROVE JobOf(u, i)'
  <2>1. JobOf(u, i)
    BY DEF Jobs
  <2> QED  BY <2>1 DEF JobOf, Leaving, Parent
<1>2. \A u \in Threads : /\ pc'[u] \in {"cached", "removed", "poisoned"} => stack[u] # << >>
                         /\ pc'[u] \in {"done", "panicked"} => stack[u] = << >>
  BY DEF Jobs
<1> QED  BY <1>1, <1>2 DEF Jobs

(* The latch of a running job is taken out, and made if need be. *)
LEMMA TakingLatch ==
    ASSUME EngineInv, NEW t \in Threads, TakeLatch(t)
    PROVE  Jobs' /\ (\A q \in Queries : Queried(q)') /\ (\A u \in Threads : Asking(u)')
<1>a. Types /\ Jobs /\ (\A q \in Queries : Queried(q)) /\ (\A u \in Threads : Asking(u))
  BY DEF EngineInv
<1>k. PICK k \in Queries : k = target[t]
  BY <1>a DEF TakeLatch, MissUnderLock, Asking
<1>b. pc[t] = "try" /\ OnStack(k) /\ t \notin cycle /\ world.roots[t] # << >>
  BY <1>a, <1>k DEF TakeLatch, MissUnderLock, Asking, Queried
<1>c. /\ Moves(t) /\ pc'[t] = "latch" /\ target' = target /\ cache' = cache /\ active' = active
      /\ stack' = stack /\ starts' = starts
  BY <1>a DEF TakeLatch, Moves, Goto, Types
<1>d. /\ \A q \in Queries \ {k} : latch'[q] = latch[q]
      /\ latch[k].made => latch'[k] = latch[k]
      /\ ~latch[k].made => latch'[k] = NewLatch /\ latch[k].waiters = << >>
      /\ latch'[k].made
  BY <1>a, <1>k, LatchShapes DEF TakeLatch, Types, Queried
<1>1. Jobs'
  BY <1>a, <1>b, <1>c, JobsKept DEF Moves
<1>o. \A q : (OnStack(q)' <=> OnStack(q)) /\ (Over(q)' <=> Over(q))
  BY <1>c DEF OnStack, Over
<1>2. ASSUME NEW q \in Queries PROVE Queried(q)'
  <2>1. CASE latch'[q] = latch[q]
    <3>1. \A u \in Threads : pc[u] = "blocked" => pc'[u] = "blocked" /\ target'[u] = target[u]
                                                /\ (u \in cycle' <=> u \in cycle)
      BY <1>b, <1>c DEF Moves
    <3>2. \A i \in DOMAIN latch[q].waiters : latch[q].waiters[i].thread \in Threads
      BY <1>a, WaiterThreads
    <3>3. Queried(q)
      BY <1>a
    <3> QED  BY <1>c, <1>o, <2>1, <3>1, <3>2, <3>3 DEF Queried
  <2>2. CASE q = k /\ latch'[q] = NewLatch
    <3>1. DOMAIN << >> = {} /\ Queried(k)
      BY <1>a
    <3> QED  BY <1>b, <1>c, <1>o, <2>2, <3>1, LatchShapes DEF Queried
  <2> QED  BY <1>d, <2>1, <2>2
<1>3. ASSUME NEW u \in Threads PROVE Asking(u)'
  <2>1. Asking(u) /\ (ManyThreads' <=> ManyThreads)
    BY <1>a, <1>c DEF Moves, ManyThreads
  <2>2. CASE u = t
    BY <1>b, <1>c, <1>d, <1>k, <2>1, <2>2 DEF Asking, Moves
  <2>3. CASE u # t /\ latch'[target[u]] = latch[target[u]]
    BY <1>c, <1>o, <2>1, <2>3 DEF Asking, Moves
  <2>4. CASE u # t /\ target[u] = k /\ ~latch[k].made
    <3>1. DOMAIN << >> = {}
      OBVIOUS
    <3>2. pc[u] # "latch" /\ ~(pc[u] = "blocked" /\ u \notin cycle)
      BY <1>d, <2>1, <2>4, <3>1 DEF Asking
    <3> QED  BY <1>c, <1>o, <2>1, <2>4, <3>2 DEF Asking, Moves
  <2>5. CASE target[u] \notin Queries
    BY <1>c, <1>o, <1>k, <2>1, <2>5 DEF Asking, Moves
  <2> QED  BY <1>d, <2>2, <2>3, <2>4, <2>5
<1> QED  BY <1>1, <1>2, <1>3

(* The waiter finds the job over, or joins the waiters of its latch. *)
LEMMA Waiting ==
    ASSUME EngineInv, NEW t \in Threads, WaitOn(t)
    PROVE  Jobs' /\ (\A q \in Queries : Queried(q)') /\ (\A u \in Threads : Asking(u)')
<1>a. Types /\ Jobs /\ (\A q \in Queries : Queried(q)) /\ (\A u \in Threads : Asking(u))
  BY DEF EngineInv
<1>k. PICK k \in Queries : k = target[t]
  BY <1>a DEF WaitOn, Asking
<1>b. pc[t] = "latch" /\ t \notin cycle /\ world.roots[t] # << >> /\ latch[k].made
  BY <1>a, <1>k DEF WaitOn, Asking
<1>c. /\ Moves(t) /\ target' = target /\ cache' = cache /\ active' = active
      /\ stack' = stack /\ starts' = starts /\ pc'[t] \in {"resumed", "blocked"}
  BY <1>a DEF WaitOn, Moves, Goto, Types
<1>1. Jobs'
  BY <1>a, <1>b, <1>c, JobsKept DEF Moves
<1>o. \A q : (OnStack(q)' <=> OnStack(q)) /\ (Over(q)' <=> Over(q))
  BY <1>c DEF OnStack, Over
<1>p. \A u \in Threads :
         pc[u] = "blocked" => /\ pc'[u] = "blocked" /\ target'[u] = target[u] /\ u # t
                              /\ (u \in cycle' <=> u \in cycle)
  BY <1>b, <1>c DEF Moves
<1>q. \A q \in Queries : \A i \in DOMAIN latch[q].waiters : latch[q].waiters[i].thread \in Threads
  BY <1>a, WaiterThreads
<1>s. ASSUME NEW q \in Queries, latch'[q] = latch[q] PROVE Queried(q)'
  <2>1. Queried(q)
    BY <1>a
  <2> QED  BY <1>c, <1>o, <1>p, <1>q, <1>s, <2>1 DEF Queried
<1>u. ASSUME NEW u \in Threads \ {t}, latch'[target[u]] = latch[target[u]] PROVE Asking(u)'
  <2>1. Asking(u) /\ (ManyThreads' <=> ManyThreads)
    BY <1>a, <1>c DEF Moves, ManyThreads
  <2> QED  BY <1>c, <1>o, <1>u, <2>1 DEF Asking, Moves
<1>2. CASE latch[k].complete
  <2>1. latch' = latch /\ pc'[t] = "resumed" /\ Over(k)
    BY <1>a, <1>k, <1>2 DEF WaitOn, Goto, Types, Queried
  <2>2. Asking(t)'
    BY <1>b, <1>c, <1>k, <1>o, <2>1 DEF Asking, Moves
  <2> QED  BY <1>1, <1>s, <1>u, <2>1, <2>2
<1>3. CASE ~latch[k].complete
  <2> DEFINE W == [thread : Threads, query : Callers]
  <2>n. PICK n \in Nat : n = Len(latch[k].waiters)
    BY <1>a, WaiterThreads
  <2>w. PICK w \in W : w = [thread |-> t, query |-> CurrentJob(t)]
    BY <1>a, JobFacts
  <2>1. /\ latch' = [latch EXCEPT ![k].waiters = Append(latch[k].waiters, w)]
        /\ pc'[t] = "blocked"
    BY <1>a, <1>k, <1>3, <2>w DEF WaitOn, Goto, Types
  <2>2. w.thread = t
    BY <2>w
  <2>3. latch[k].waiters \in Seq(W)
    BY <1>a, WaiterThreads
  <2> HIDE DEF W
  <2>4. /\ Append(latch[k].waiters, w) \in Seq(W)
        /\ DOMAIN latch[k].waiters = 1 .. n /\ DOMAIN Append(latch[k].waiters, w) = 1 .. n + 1
        /\ \A i \in 1 .. n : Append(latch[k].waiters, w)[i] = latch[k].waiters[i]
        /\ Append(latch[k].waiters, w)[n + 1] = w
    BY <2>3, <2>n, Appended
  <2>5. /\ \A q \in Queries \ {k} : latch'[q] = latch[q]
        /\ latch'[k].made = latch[k].made /\ latch'[k].complete = latch[k].complete
        /\ latch'[k].waiters = Append(latch[k].waiters, w)
    BY <1>a, <2>1, <2>4, LatchWaiters DEF W
  <2>6. n + 1 \in 1 .. n + 1 /\ \A i \in 1 .. n + 1 : i \in 1 .. n \/ i = n + 1
    OBVIOUS
  <2>7. Queried(k)'
    <3>1. Queried(k) /\ OnStack(k)
      BY <1>a, <1>b, <1>3 DEF Queried
    <3>2. ASSUME NEW i \in DOMAIN latch'[k].waiters
          PROVE  LET u == latch'[k].waiters[i].thread
                 IN  /\ pc'[u] = "blocked" /\ target'[u] = k /\ u \notin cycle'
                     /\ \A j \in DOMAIN latch'[k].waiters : latch'[k].waiters[j].thread = u => i = j
      <4>1. \A j \in 1 .. n : /\ latch[k].waiters[j].thread \in Threads \ {t}
                              /\ pc[latch[k].waiters[j].thread] = "blocked"
                              /\ target[latch[k].waiters[j].thread] = k
                              /\ latch[k].waiters[j].thread \notin cycle
        BY <1>p, <1>q, <2>4, <3>1 DEF Queried
      <4>2. CASE i \in 1 .. n
        <5>1. \A j \in 1 .. n : latch[k].waiters[j].thread = latch[k].waiters[i].thread => i = j
          BY <2>4, <3>1, <4>2 DEF Queried
        <5>2. latch'[k].waiters[n + 1].thread = t
          BY <2>2, <2>4, <2>5
        <5>3. \A j \in 1 .. n : latch'[k].waiters[j] = latch[k].waiters[j]
          BY <2>4, <2>5
        <5> QED  BY <1>p, <2>4, <2>5, <2>6, <4>1, <4>2, <5>1, <5>2, <5>3
      <4>3. CASE i = n + 1
        <5>1. latch'[k].waiters[i].thread = t
          BY <2>2, <2>4, <2>5, <4>3
        <5>2. pc'[t] = "blocked" /\ target'[t] = k /\ t \notin cycle'
          BY <1>b, <1>c, <1>k, <2>1 DEF Moves
        <5>3. \A j \in 1 .. n : latch'[k].waiters[j].thread # t
          BY <2>4, <2>5, <4>1
        <5> QED  BY <2>4, <2>5, <2>6, <4>3, <5>1, <5>2, <5>3
      <4> QED  BY <2>4, <2>5, <2>6, <4>2, <4>3
    <3> QED  BY <1>b, <1>c, <1>o, <1>3, <2>5, <3>1, <3>2 DEF Queried
  <2>8. Asking(t)'
    <3>1. \E i \in DOMAIN latch'[k].waiters : latch'[k].waiters[i].thread = t
      BY <2>2, <2>4, <2>5, <2>6
    <3> QED  BY <1>b, <1>c, <1>k, <2>1, <3>1 DEF Asking, Moves
  <2>9. ASSUME NEW u \in Threads \ {t}, target[u] = k PROVE Asking(u)'
    <3>1. Asking(u) /\ (ManyThreads' <=> ManyThreads)
      BY <1>a, <1>c DEF Moves, ManyThreads
    <3>2. pc[u] = "blocked" /\ u \notin cycle =>
             \E i \in DOMAIN latch'[k].waiters : latch'[k].waiters[i].thread = u
      <4>1. 1 .. n \subseteq 1 .. n + 1
        OBVIOUS
      <4> QED  BY <2>4, <2>5, <2>9, <3>1, <4>1 DEF Asking
    <3> QED  BY <1>b, <1>c, <1>o, <2>5, <2>9, <3>1, <3>2 DEF Asking, Moves
  <2>10. ASSUME NEW u \in Threads \ {t}, target[u] \notin Queries PROVE Asking(u)'
    <3>1. Asking(u) /\ (ManyThreads' <=> ManyThreads)
      BY <1>a, <1>c DEF Moves, ManyThreads
    <3> QED  BY <1>c, <1>o, <2>10, <3>1 DEF Asking, Moves
  <2> QED  BY <1>1, <1>s, <1>u, <2>5, <2>7, <2>8, <2>9, <2>10
<1> QED  BY <1>2, <1>3

(* t has computed its innermost job, takes it out of the map or poisons it. *)
Finishes(t) ==
    LET k == CurrentJob(t)
    IN  /\ Moves(t) /\ UNCHANGED <<target, latch, stack, starts>>
        /\ stack[t] # << >> /\ pc[t] \in {"run", "cached", "unwind"}
        /\ pc'[t] \in {"cached", "removed", "poisoned"}
        /\ \A q \in Queries \ {k} : active'[q] = active[q] /\ (q \in cache' <=> q \in cache)
        /\ pc'[t] = "cached" => active'[k] = active[k]
        /\ pc'[t] = "removed" => active'[k] = Vacant
        /\ pc'[t] = "poisoned" => active'[k] = Poisoned
        /\ k \in cache' <=> pc'[t] \in {"cached", "removed"}

(* The steps that finish a job; the job they find is active. *)
LEMMA FinishingSteps ==
    ASSUME EngineInv, NEW t \in Threads,
           CompleteCache(t) \/ CompleteRemove(t) \/ DropPoison(t)
    PROVE  Finishes(t) /\ failure' = failure
<1>a. /\ pc \in [Threads -> Labels] /\ active \in [Queries -> JobStates]
      /\ pc[t] \in {"cached", "removed", "poisoned"} => stack[t] # << >>
  BY DEF EngineInv, Types, Jobs
<1>b. stack[t] # << >>
  BY <1>a DEF CompleteCache, ProviderDone, CompleteRemove, DropPoison
<1>k. PICK k \in Queries : k = CurrentJob(t)
  BY <1>b, Innermost
<1>c. /\ pc[t] \notin {"removed", "poisoned"} => active[k].tag = "started"
      /\ k \in cache <=> pc[t] \in {"cached", "removed"}
  BY <1>b, <1>k, Innermost, StatesDiffer
<1>1. CASE CompleteCache(t)
  <2>1. /\ Moves(t) /\ UNCHANGED <<target, latch, stack, starts, active, failure>>
        /\ pc[t] = "run" /\ pc'[t] = "cached"
    BY <1>a, <1>1 DEF CompleteCache, ProviderDone, Goto, Moves
  <2>2. cache' = cache \union {k}
    BY <1>1, <1>k DEF CompleteCache
  <2> QED  BY <1>b, <1>k, <2>1, <2>2 DEF Finishes
<1>2. CASE CompleteRemove(t)
  <2>1. /\ Moves(t) /\ UNCHANGED <<target, latch, stack, starts, cache>>
        /\ pc[t] = "cached" /\ pc'[t] = "removed"
    BY <1>a, <1>2 DEF CompleteRemove, Goto, Moves
  <2>2. active'[k] = Vacant /\ (\A q \in Queries \ {k} : active'[q] = active[q]) /\ failure' = failure
    BY <1>2, <1>a, <1>c, <1>k, <2>1 DEF CompleteRemove
  <2> QED  BY <1>b, <1>c, <1>k, <2>1, <2>2 DEF Finishes
<1>3. CASE DropPoison(t)
  <2>1. /\ Moves(t) /\ UNCHANGED <<target, latch, stack, starts, cache>>
        /\ pc[t] = "unwind" /\ pc'[t] = "poisoned"
    BY <1>a, <1>3 DEF DropPoison, Goto, Moves
  <2>2. active'[k] = Poisoned /\ (\A q \in Queries \ {k} : active'[q] = active[q]) /\ failure' = failure
    BY <1>3, <1>a, <1>c, <1>k, <2>1 DEF DropPoison
  <2> QED  BY <1>b, <1>c, <1>k, <2>1, <2>2 DEF Finishes
<1> QED  BY <1>1, <1>2, <1>3

(* They keep the invariant: what was over stays so, and in the build that   *)
(* does not look again nobody is asking meanwhile.                          *)
LEMMA Finishing ==
    ASSUME EngineInv, NEW t \in Threads, Finishes(t)
    PROVE  Jobs' /\ (\A q \in Queries : Queried(q)') /\ (\A u \in Threads : Asking(u)')
<1>a. Types /\ Jobs /\ (\A q \in Queries : Queried(q)) /\ (\A u \in Threads : Asking(u))
  BY DEF EngineInv
<1>s. stack[t] # << >>
  BY DEF Finishes
<1>k. PICK k \in Queries : k = CurrentJob(t)
  BY <1>s, Innermost
<1>n. PICK n \in Nat : n = Len(stack[t])
  BY <1>a DEF Types
<1>b. /\ world' = world /\ cycle' = cycle /\ target' = target /\ latch' = latch /\ stack' = stack
      /\ starts' = starts /\ \A u \in Threads \ {t} : pc'[u] = pc[u]
  BY DEF Finishes, Moves
<1>c. /\ pc[t] \in {"run", "cached", "unwind"} /\ pc'[t] \in {"cached", "removed", "poisoned"}
      /\ \A q \in Queries \ {k} : active'[q] = active[q] /\ (q \in cache' <=> q \in cache)
      /\ pc'[t] = "cached" => active'[k] = active[k]
      /\ pc'[t] = "removed" => active'[k] = Vacant
      /\ pc'[t] = "poisoned" => active'[k] = Poisoned
      /\ k \in cache' <=> pc'[t] \in {"cached", "removed"}
  BY <1>k DEF Finishes
<1>d. n \in DOMAIN stack[t] /\ stack[t][n] = k /\ OnStack(k) /\ starts[k] = 1
  BY <1>a, <1>s, <1>k, <1>n, JobFacts, Innermost
<1>e. \A u \in Threads : \A i \in DOMAIN stack[u] : stack[u][i] = k => u = t /\ i = n
  BY <1>a, <1>d DEF Jobs
<1>f. \A u \in Threads : \A i \in DOMAIN stack[u] : stack[u][i] \in Queries
  BY <1>a, LenProperties, ElementOfSeq DEF Types
<1>o. \A q : OnStack(q)' <=> OnStack(q)
  BY <1>b DEF OnStack
<1>v. \A q \in Queries : Over(q) => Over(q)'
  <2>1. k \in Queries => Over(k)'
    BY <1>b, <1>c DEF Over
  <2>2. \A q \in Queries \ {k} : Over(q) => Over(q)'
    BY <1>c DEF Over
  <2> QED  BY <2>1, <2>2
<1>w. pc'[t] = "cached" => k \in cache'
  BY <1>c
<1>1. Jobs'
  <2>1. ASSUME NEW u \in Threads, NEW i \in DOMAIN stack[u] PROVE JobOf(u, i)'
    <3>1. JobOf(u, i) /\ Parent(u, i)' = Parent(u, i)
      BY <1>a, <1>b DEF Jobs, Parent
    <3>2. CASE u = t /\ i = n
      BY <1>b, <1>c, <1>d, <1>n, <3>1, <3>2 DEF JobOf, Leaving
    <3>3. CASE ~(u = t /\ i = n)
      <4>1. stack[u][i] \in Queries \ {k}
        BY <1>e, <1>f, <3>3
      <4>2. ASSUME NEW l PROVE Leaving(u, i, l)' <=> Leaving(u, i, l)
        BY <1>b, <1>n, <3>3 DEF Leaving
      <4> QED  BY <1>b, <1>c, <3>1, <4>1, <4>2 DEF JobOf
    <3> QED  BY <3>2, <3>3
  <2>2. \A u \in Threads : /\ pc'[u] \in {"cached", "removed", "poisoned"} => stack[u] # << >>
                           /\ pc'[u] \in {"done", "panicked"} => stack[u] = << >>
    BY <1>a, <1>b, <1>c, <1>s DEF Jobs
  <2> QED  BY <1>a, <1>b, <2>1, <2>2 DEF Jobs
<1>2. ASSUME NEW q \in Queries PROVE Queried(q)'
  <2>1. Queried(q)
    BY <1>a
  <2>2. starts'[q] = IF q \in cache' \/ active'[q] # Vacant THEN 1 ELSE 0
    <3>1. CASE q = k
      BY <1>b, <1>c, <1>d, <3>1, StatesDiffer
    <3>2. CASE q # k
      BY <1>b, <1>c, <2>1, <3>2 DEF Queried
    <3> QED  BY <3>1, <3>2
  <2>3. active'[q].tag = "started" => OnStack(q)'
    BY <1>c, <1>d, <1>o, <2>1 DEF Queried
  <2>4. \A u \in Threads : pc[u] = "blocked" => pc'[u] = "blocked"
    BY <1>b, <1>c
  <2>5. \A i \in DOMAIN latch[q].waiters : latch[q].waiters[i].thread \in Threads
    BY <1>a, WaiterThreads
  <2> QED  BY <1>b, <1>o, <1>v, <2>1, <2>2, <2>3, <2>4, <2>5 DEF Queried
<1>3. ASSUME NEW u \in Threads PROVE Asking(u)'
  <2>1. Asking(u) /\ (ManyThreads' <=> ManyThreads)
    BY <1>a, <1>b DEF ManyThreads
  <2>2. CASE u = t
    <3>1. t \notin cycle /\ world.roots[t] # << >>
      BY <1>c, <1>s, <2>1, <2>2 DEF Asking
    <3> QED  BY <1>b, <1>c, <2>2, <3>1 DEF Asking
  <2>3. CASE u # t
    <3>1. pc[u] = "resumed" /\ u \notin cycle => Over(target[u])'
      BY <1>b, <1>v, <2>1 DEF Asking, Over
    <3>2. ~(pc[u] = "try" /\ ~ManyThreads)
      BY <1>s, <2>3, OneAsks
    <3> QED  BY <1>b, <2>1, <2>3, <3>1, <3>2 DEF Asking
  <2> QED  BY <2>2, <2>3
<1> QED  BY <1>1, <1>2, <1>3

(* t leaves its innermost job and signals whoever waits for it. *)
Signals(t) ==
    /\ pc[t] \in {"removed", "poisoned"}
    /\ \E l \in {"run", "unwind"} : SignalComplete(t, CurrentJob(t), l)
    /\ stack' = [stack EXCEPT ![t] = Front(@)]
    /\ UNCHANGED <<world, cache, active, target, cycle, starts>>

(* Everybody who waits for the job is resumed, and finds it over. *)
LEMMA Signalling ==
    ASSUME EngineInv, NEW t \in Threads, Signals(t)
    PROVE  Jobs' /\ (\A q \in Queries : Queried(q)') /\ (\A u \in Threads : Asking(u)')
<1>a. Types /\ Jobs /\ (\A q \in Queries : Queried(q)) /\ (\A u \in Threads : Asking(u))
  BY DEF EngineInv
<1>s. stack[t] # << >> /\ pc[t] \in {"removed", "poisoned"}
  BY <1>a DEF Signals, Jobs
<1>k. PICK k \in Queries : k = CurrentJob(t)
  BY <1>s, Innermost
<1>n. PICK n \in Nat : n = Len(stack[t])
  BY <1>a DEF Types
<1>b. /\ world' = world /\ cache' = cache /\ active' = active /\ target' = target
      /\ cycle' = cycle /\ starts' = starts
  BY DEF Signals
<1>c. /\ n \in DOMAIN stack[t] /\ stack[t][n] = k /\ starts[k] = 1
      /\ Over(k) /\ active[k].tag # "started"
  BY <1>a, <1>s, <1>k, <1>n, JobFacts, Innermost, StatesDiffer DEF Over
<1>d. /\ DOMAIN stack[t] = 1 .. n /\ n \in Nat \ {0}
      /\ DOMAIN stack'[t] = 1 .. n - 1 /\ Len(stack'[t]) = n - 1
      /\ \A i \in 1 .. n - 1 : stack'[t][i] = stack[t][i]
      /\ \A u \in Threads \ {t} : stack'[u] = stack[u]
  <2>1. stack \in [Threads -> Seq(Queries)] /\ stack' = [stack EXCEPT ![t] = Front(stack[t])]
    BY <1>a DEF Types, Signals
  <2>2. stack'[t] = Front(stack[t]) /\ \A u \in Threads \ {t} : stack'[u] = stack[u]
    BY <2>1
  <2>3. stack[t] \in Seq(Queries)
    BY <2>1
  <2>4. /\ Len(Front(stack[t])) = Len(stack[t]) - 1
        /\ \A i \in 1 .. Len(stack[t]) - 1 : Front(stack[t])[i] = stack[t][i]
        /\ DOMAIN stack[t] = 1 .. Len(stack[t])
        /\ DOMAIN Front(stack[t]) = 1 .. Len(stack[t]) - 1
    BY <1>s, <2>3, FrontLast
  <2> QED  BY <1>n, <2>2, <2>4
<1>w. PICK woken \in SUBSET Threads :
         woken = {latch[k].waiters[i].thread : i \in DOMAIN latch[k].waiters}
  BY <1>a, WaiterThreads
<1>l. PICK l \in {"run", "unwind"} :
         pc' = [u \in Threads |-> IF u \in woken THEN "resumed" ELSE IF u = t THEN l ELSE pc[u]]
  BY <1>k, <1>w DEF Signals, SignalComplete
<1>e. \A u \in woken : pc[u] = "blocked" /\ target[u] = k /\ u \notin cycle /\ u # t
  BY <1>a, <1>s, <1>w DEF Queried
<1>f. /\ pc'[t] \in {"run", "unwind"}
      /\ \A u \in woken : pc'[u] = "resumed"
      /\ \A u \in Threads \ {t} : u \notin woken => pc'[u] = pc[u]
  BY <1>e, <1>l
<1>g. /\ \A q \in Queries \ {k} : latch'[q] = latch[q]
      /\ \/ latch'[k] = SetLatch
         \/ ~latch[k].made /\ latch'[k] = latch[k] /\ latch[k].waiters = << >>
  <2>1. latch' = IF latch[k].made THEN [latch EXCEPT ![k] = SetLatch] ELSE latch
    BY <1>k DEF Signals, SignalComplete
  <2>2. latch \in [Queries -> Latches] /\ (~latch[k].made => latch[k].waiters = << >>)
    BY <1>a DEF Types, Queried
  <2> QED  BY <2>1, <2>2
<1>h. \A u \in Threads : \A i \in DOMAIN stack'[u] :
         /\ i \in DOMAIN stack[u] /\ stack'[u][i] = stack[u][i]
         /\ u = t => i # n
  <2>1. \A i \in 1 .. n - 1 : i \in 1 .. n /\ i # n
    BY <1>d
  <2> QED  BY <1>d, <2>1
<1>v. \A q : Over(q)' <=> Over(q)
  BY <1>b DEF Over
<1>1. Jobs'
  <2>1. ASSUME NEW u \in Threads, NEW i \in DOMAIN stack'[u] PROVE JobOf(u, i)'
    <3>1. JobOf(u, i) /\ i \in DOMAIN stack[u] /\ stack'[u][i] = stack[u][i]
      BY <1>a, <1>h DEF Jobs
    <3>2. Parent(u, i)' = Parent(u, i)
      <4>1. CASE u # t
        BY <1>d, <4>1 DEF Parent
      <4>2. CASE u = t
        <5>1. i = 1 \/ i - 1 \in 1 .. n - 1
          BY <1>d, <4>2
        <5> QED  BY <1>d, <4>2, <5>1 DEF Parent
      <4> QED  BY <4>1, <4>2
    <3>3. CASE u # t
      <4>1. \/ pc'[u] = pc[u]
            \/ /\ pc[u] \notin {"cached", "removed", "poisoned"}
               /\ pc'[u] \notin {"cached", "removed", "poisoned"}
        BY <1>e, <1>f, <3>3
      <4>2. stack'[u] = stack[u]
        BY <1>d, <3>3
      <4> QED  BY <1>b, <3>1, <3>2, <4>1, <4>2 DEF JobOf, Leaving
    <3>4. CASE u = t
      <4>1. i # n /\ i # Len(stack[t])
        BY <1>h, <1>n, <3>4
      <4>2. /\ ~Leaving(t, i, {"removed", "poisoned"}) /\ ~Leaving(t, i, {"cached", "removed"})
            /\ ~Leaving(t, i, {"removed"}) /\ ~Leaving(t, i, {"poisoned"})
        BY <4>1 DEF Leaving
      <4>3. /\ ~Leaving(t, i, {"removed", "poisoned"})' /\ ~Leaving(t, i, {"cached", "removed"})'
            /\ ~Leaving(t, i, {"removed"})' /\ ~Leaving(t, i, {"poisoned"})'
        BY <1>f DEF Leaving
      <4> QED  BY <1>b, <3>1, <3>2, <3>4, <4>2, <4>3 DEF JobOf
    <3> QED  BY <3>3, <3>4
  <2>2. \A u, v \in Threads : \A i \in DOMAIN stack'[u], j \in DOMAIN stack'[v] :
           stack'[u][i] = stack'[v][j] => u = v /\ i = j
    BY <1>a, <1>h DEF Jobs
  <2>3. \A u \in Threads : /\ pc'[u] \in {"cached", "removed", "poisoned"} => stack'[u] # << >>
                           /\ pc'[u] \in {"done", "panicked"} => stack'[u] = << >>
    BY <1>a, <1>d, <1>f DEF Jobs
  <2> QED  BY <2>1, <2>2, <2>3 DEF Jobs
<1>2. ASSUME NEW q \in Queries PROVE Queried(q)'
  <2>1. Queried(q) /\ DOMAIN << >> = {}
    BY <1>a
  <2>2. CASE q = k
    BY <1>b, <1>c, <1>g, <1>v, <2>1, <2>2, LatchShapes DEF Queried
  <2>3. CASE q # k
    <3>1. OnStack(q) => OnStack(q)'
      <4>1. ASSUME NEW u \in Threads, NEW i \in DOMAIN stack[u], stack[u][i] = q
            PROVE  i \in DOMAIN stack'[u] /\ stack'[u][i] = q
        <5>1. CASE u # t
          BY <1>d, <4>1, <5>1
        <5>2. CASE u = t
          <6>1. i # n
            BY <1>c, <2>3, <4>1, <5>2
          <6>2. i \in 1 .. n - 1
            BY <1>d, <5>2, <6>1
          <6> QED  BY <1>d, <4>1, <5>2, <6>2
        <5> QED  BY <5>1, <5>2
      <4> QED  BY <4>1 DEF OnStack
    <3>2. latch'[q] = latch[q]
      BY <1>g, <2>3
    <3>3. \A u \in Threads : pc[u] = "blocked" /\ target[u] = q => pc'[u] = "blocked"
      BY <1>e, <1>f, <1>s, <2>3
    <3>4. \A i \in DOMAIN latch[q].waiters : latch[q].waiters[i].thread \in Threads
      BY <1>a, WaiterThreads
    <3> QED  BY <1>b, <1>v, <2>1, <3>1, <3>2, <3>3, <3>4 DEF Queried
  <2> QED  BY <2>2, <2>3
<1>3. ASSUME NEW u \in Threads PROVE Asking(u)'
  <2>1. Asking(u) /\ (ManyThreads' <=> ManyThreads)
    BY <1>a, <1>b DEF ManyThreads
  <2>2. CASE u = t
    <3>1. t \notin cycle /\ world.roots[t] # << >>
      BY <1>s, <2>1, <2>2 DEF Asking
    <3> QED  BY <1>b, <1>f, <2>2, <3>1 DEF Asking
  <2>3. CASE u \in woken
    <3>1. pc'[u] = "resumed" /\ target[u] = k /\ u \notin cycle /\ pc[u] = "blocked"
      BY <1>e, <1>f, <2>3
    <3>2. world.roots[u] # << >>
      BY <2>1, <3>1 DEF Asking
    <3> QED  BY <1>b, <1>c, <1>v, <3>1, <3>2 DEF Asking
  <2>4. CASE u # t /\ u \notin woken
    <3>1. pc'[u] = pc[u] /\ stack'[u] = stack[u]
      BY <1>d, <1>f, <2>4
    <3>2. pc[u] = "latch" => latch'[target[u]].made
      BY <1>g, <2>1, LatchShapes DEF Asking
    <3>3. pc[u] = "blocked" /\ u \notin cycle =>
             \E i \in DOMAIN latch'[target[u]].waiters : latch'[target[u]].waiters[i].thread = u
      <4>1. pc[u] = "blocked" /\ u \notin cycle => target[u] # k
        BY <1>w, <2>1, <2>4 DEF Asking
      <4> QED  BY <1>g, <2>1, <4>1 DEF Asking
    <3> QED  BY <1>b, <1>v, <2>1, <3>1, <3>2, <3>3 DEF Asking
  <2> QED  BY <2>2, <2>3, <2>4
<1> QED  BY <1>1, <1>2, <1>3

-----------------------------------------------------------------------------
(* The steps of the deadlock handler *)

(* A waiter leaves its latch and is on the wakelist instead. *)
LEMMA Removing ==
    ASSUME EngineInv, NEW c \in DOMAIN handlers, RemoveCycle(c)
    PROVE  Jobs' /\ Woken' /\ (\A q \in Queries : Queried(q)') /\ (\A u \in Threads : Asking(u)')
<1>a. Types /\ Jobs /\ (\A q \in Queries : Queried(q)) /\ (\A u \in Threads : Asking(u))
  BY DEF EngineInv
<1>b. /\ world' = world /\ cache' = cache /\ active' = active /\ target' = target
      /\ stack' = stack /\ pc' = pc /\ starts' = starts
  BY DEF RemoveCycle
<1>o. \A q : (OnStack(q)' <=> OnStack(q)) /\ (Over(q)' <=> Over(q))
  BY <1>b DEF OnStack, Over
<1>1. Jobs'
  BY <1>a, <1>b, JobsKept
<1>h. handlers \in Seq(HandlerCalls)
  BY DEF EngineInv, Woken
<1>4. Woken'
  <2>a. handlers[c] \in HandlerCalls
    BY <1>h, LenProperties, ElementOfSeq
  <2>b. handlers[c].wakelist \in SUBSET Threads
    BY <2>a DEF HandlerCalls
  <2>1. CASE handlers' = handlers /\ cycle' = cycle
    BY <2>1, <1>b DEF EngineInv, Woken
  <2>2. ASSUME NEW J \in SUBSET Queries, cycle' = cycle,
               handlers' = [handlers EXCEPT ![c].jobs = J, ![c].wakelist = handlers[c].wakelist]
        PROVE  Woken'
    <3>1. /\ handlers' \in Seq(HandlerCalls) /\ DOMAIN handlers' = DOMAIN handlers
          /\ \A j \in DOMAIN handlers : handlers'[j].wakelist = handlers[j].wakelist
      BY <1>h, <2>2, <2>b, CallChanged
    <3> QED  BY <1>b, <2>2, <3>1 DEF EngineInv, Woken
  <2>3. ASSUME NEW q \in Queries, NEW k \in DOMAIN latch[q].waiters, NEW J \in SUBSET Queries,
               cycle' = cycle \union {latch[q].waiters[k].thread},
               handlers' = [handlers EXCEPT
                 ![c].jobs = J,
                 ![c].wakelist = handlers[c].wakelist \union {latch[q].waiters[k].thread}]
        PROVE  Woken'
    <3>1. PICK x \in Threads : x = latch[q].waiters[k].thread
      BY <1>a, WaiterThreads
    <3>2. pc[x] = "blocked" /\ x \notin cycle
      BY <1>a, <3>1 DEF Queried
    <3>3. \A j \in DOMAIN handlers : x \notin handlers[j].wakelist
      BY <3>2 DEF EngineInv, Woken
    <3>4. handlers[c].wakelist \union {x} \in SUBSET Threads
      BY <2>b
    <3>5. handlers' = [handlers EXCEPT ![c].jobs = J, ![c].wakelist = handlers[c].wakelist \union {x}]
      BY <2>3, <3>1
    <3>6. /\ handlers' \in Seq(HandlerCalls) /\ DOMAIN handlers' = DOMAIN handlers
          /\ handlers'[c].wakelist = handlers[c].wakelist \union {x}
          /\ \A j \in DOMAIN handlers \ {c} : handlers'[j] = handlers[j]
      BY <1>h, <3>4, <3>5, CallChanged
    <3>7. /\ \A j \in DOMAIN handlers : \A t \in handlers[j].wakelist :
                t \in cycle /\ pc[t] = "blocked"
          /\ \A i, j \in DOMAIN handlers : \A t \in Threads :
                t \in handlers[i].wakelist /\ t \in handlers[j].wakelist => i = j
      BY DEF EngineInv, Woken
    <3>8. \A j \in DOMAIN handlers' : \A t \in handlers'[j].wakelist :
             t \in cycle' /\ pc'[t] = "blocked"
      BY <1>b, <2>3, <3>1, <3>2, <3>6, <3>7
    <3>9. \A i, j \in DOMAIN handlers' : \A t \in Threads :
             t \in handlers'[i].wakelist /\ t \in handlers'[j].wakelist => i = j
      BY <3>3, <3>6, <3>7
    <3> QED  BY <3>6, <3>8, <3>9 DEF Woken
  <2> QED  BY <1>h, <2>1, <2>2, <2>3, ResumesWaiter
<1>2. CASE latch' = latch /\ cycle' = cycle
  <2>1. ASSUME NEW q \in Queries PROVE Queried(q)'
    <3>1. Queried(q)
      BY <1>a
    <3> QED  BY <1>2, <1>b, <1>o, <3>1 DEF Queried
  <2>2. ASSUME NEW u \in Threads PROVE Asking(u)'
    <3>1. Asking(u) /\ (ManyThreads' <=> ManyThreads)
      BY <1>a, <1>b DEF ManyThreads
    <3> QED  BY <1>2, <1>b, <1>o, <3>1 DEF Asking
  <2> QED  BY <1>1, <1>4, <2>1, <2>2
<1>3. ASSUME NEW k \in Queries, NEW m \in DOMAIN latch[k].waiters,
             latch' = [latch EXCEPT ![k].waiters = RemoveAt(@, m)],
             cycle' = cycle \union {latch[k].waiters[m].thread}
      PROVE  (\A q \in Queries : Queried(q)') /\ (\A u \in Threads : Asking(u)')
  <2> DEFINE W == [thread : Threads, query : Callers]
  <2>n. PICK n \in Nat : n = Len(latch[k].waiters)
    BY <1>a, WaiterThreads
  <2>x. PICK x \in Threads : x = latch[k].waiters[m].thread
    BY <1>a, WaiterThreads
  <2>0. latch[k].waiters \in Seq(W)
    BY <1>a, WaiterThreads
  <2> HIDE DEF W
  <2>1. /\ RemoveAt(latch[k].waiters, m) \in Seq(W) /\ m \in 1 .. n
        /\ DOMAIN latch[k].waiters = 1 .. n
        /\ DOMAIN RemoveAt(latch[k].waiters, m) = 1 .. n - 1
        /\ \A i \in 1 .. n - 1 :
              RemoveAt(latch[k].waiters, m)[i] = IF i < m THEN latch[k].waiters[i]
                                                 ELSE latch[k].waiters[i + 1]
    BY <2>0, <2>n, Removed
  <2>2. /\ \A q \in Queries \ {k} : latch'[q] = latch[q]
        /\ latch'[k].made = latch[k].made /\ latch'[k].complete = latch[k].complete
        /\ latch'[k].waiters = RemoveAt(latch[k].waiters, m)
    BY <1>3, <1>a, <2>1, LatchWaiters DEF W
  <2>3. /\ DOMAIN latch'[k].waiters = 1 .. n - 1
        /\ \A i \in 1 .. n - 1 : /\ i < m => latch'[k].waiters[i] = latch[k].waiters[i]
                                 /\ ~(i < m) => latch'[k].waiters[i] = latch[k].waiters[i + 1]
    BY <2>1, <2>2
  <2>4. /\ \A i \in 1 .. n : LET u == latch[k].waiters[i].thread
                             IN  pc[u] = "blocked" /\ target[u] = k /\ u \notin cycle
        /\ \A i, j \in 1 .. n : latch[k].waiters[i].thread = latch[k].waiters[j].thread => i = j
        /\ latch[k].made /\ ~latch[k].complete /\ OnStack(k)
    <3>1. Queried(k) /\ latch[k].waiters # << >>
      BY <1>a
    <3> QED  BY <2>1, <3>1, <1>a, WaiterThreads DEF Queried
  <2>5. pc[x] = "blocked" /\ target[x] = k /\ cycle' = cycle \union {x}
    BY <1>3, <2>1, <2>4, <2>x
  <2>6. \A i \in 1 .. n - 1 : /\ i \in 1 .. n /\ i + 1 \in 1 .. n
                              /\ i < m => i # m
                              /\ ~(i < m) => i + 1 # m
    BY <2>1
  <2>7. ASSUME NEW q \in Queries PROVE Queried(q)'
    <3>1. Queried(q)
      BY <1>a
    <3>2. CASE q # k
      <4>1. latch'[q] = latch[q]
        BY <2>2, <3>2
      <4>2. \A i \in DOMAIN latch[q].waiters : latch[q].waiters[i].thread \notin cycle'
        BY <2>5, <3>1, <3>2 DEF Queried
      <4> QED  BY <1>b, <1>o, <3>1, <4>1, <4>2 DEF Queried
    <3>3. CASE q = k
      <4>1. ASSUME NEW i \in 1 .. n - 1
            PROVE  LET u == latch'[k].waiters[i].thread
                   IN  /\ pc[u] = "blocked" /\ target[u] = k /\ u \notin cycle'
                       /\ \A j \in 1 .. n - 1 : latch'[k].waiters[j].thread = u => i = j
        <5>1. PICK a \in 1 .. n : /\ latch'[k].waiters[i] = latch[k].waiters[a] /\ a # m
                                  /\ i < m => a = i
                                  /\ ~(i < m) => a = i + 1
          BY <2>3, <2>6
        <5>2. latch[k].waiters[a].thread # x
          BY <2>1, <2>4, <2>x, <5>1
        <5>3. ASSUME NEW j \in 1 .. n - 1, latch'[k].waiters[j].thread = latch'[k].waiters[i].thread
              PROVE  i = j
          <6>1. PICK b \in 1 .. n : /\ latch'[k].waiters[j] = latch[k].waiters[b]
                                    /\ j < m => b = j
                                    /\ ~(j < m) => b = j + 1
            BY <2>3, <2>6
          <6>2. a = b
            BY <2>4, <5>1, <5>3, <6>1
          <6> QED  BY <2>1, <5>1, <6>1, <6>2
        <5> QED  BY <2>4, <2>5, <5>1, <5>2, <5>3
      <4>2. \A i \in DOMAIN latch'[k].waiters :
               LET u == latch'[k].waiters[i].thread
               IN  /\ pc'[u] = "blocked" /\ target'[u] = k /\ u \notin cycle'
                   /\ \A j \in DOMAIN latch'[k].waiters : latch'[k].waiters[j].thread = u => i = j
        BY <1>b, <2>3, <4>1
      <4>3. latch'[k].made /\ ~latch'[k].complete
        BY <2>2, <2>4
      <4> QED  BY <1>b, <1>o, <2>4, <3>1, <3>3, <4>2, <4>3 DEF Queried
    <3> QED  BY <3>2, <3>3
  <2>8. ASSUME NEW u \in Threads PROVE Asking(u)'
    <3>1. Asking(u) /\ (ManyThreads' <=> ManyThreads)
      BY <1>a, <1>b DEF ManyThreads
    <3>2. CASE u = x
      BY <1>b, <2>5, <3>1, <3>2 DEF Asking
    <3>3. CASE u # x
      <4>1. u \in cycle' <=> u \in cycle
        BY <2>5, <3>3
      <4>2. pc[u] = "latch" => latch'[target[u]].made
        BY <2>2, <3>1 DEF Asking
      <4>3. ASSUME pc[u] = "blocked", u \notin cycle
            PROVE  \E i \in DOMAIN latch'[target[u]].waiters :
                      latch'[target[u]].waiters[i].thread = u
        <5>1. target[u] \in Queries
          BY <3>1, <4>3 DEF Asking
        <5>2. CASE target[u] # k
          BY <2>2, <3>1, <4>3, <5>1, <5>2 DEF Asking
        <5>3. CASE target[u] = k
          <6>1. PICK a \in 1 .. n : latch[k].waiters[a].thread = u
            BY <2>1, <3>1, <4>3, <5>3 DEF Asking
          <6>2. a # m
            BY <2>x, <3>3, <6>1
          <6>3. CASE a < m
            <7>1. a \in 1 .. n - 1
              BY <2>1, <6>3
            <7> QED  BY <2>3, <5>3, <6>1, <6>3, <7>1
          <6>4. CASE ~(a < m)
            <7>1. a - 1 \in 1 .. n - 1 /\ ~(a - 1 < m) /\ (a - 1) + 1 = a
              BY <2>1, <6>2, <6>4
            <7> QED  BY <2>3, <5>3, <6>1, <7>1
          <6> QED  BY <6>3, <6>4
        <5> QED  BY <5>2, <5>3
      <4> QED  BY <1>b, <1>o, <3>1, <4>1, <4>2, <4>3 DEF Asking
    <3> QED  BY <3>2, <3>3
  <2> QED  BY <2>7, <2>8
<1> QED  BY <1>1, <1>2, <1>3, <1>4, <1>h, ResumesWaiter

(* A thread on a wakelist is resumed. *)
LEMMA Notifying ==
    ASSUME EngineInv, NEW c \in DOMAIN handlers, Notify(c)
    PROVE  Jobs' /\ Woken' /\ (\A q \in Queries : Queried(q)') /\ (\A u \in Threads : Asking(u)')
<1>a. Types /\ Jobs /\ Woken /\ (\A q \in Queries : Queried(q)) /\ (\A u \in Threads : Asking(u))
  BY DEF EngineInv
<1>b. /\ world' = world /\ cache' = cache /\ active' = active /\ target' = target
      /\ stack' = stack /\ latch' = latch /\ cycle' = cycle /\ starts' = starts
  BY DEF Notify
<1>c. handlers \in Seq(HandlerCalls) /\ handlers[c] \in HandlerCalls /\ pc \in [Threads -> Labels]
  BY <1>a, LenProperties, ElementOfSeq DEF Woken, Types
<1>d. handlers[c].wakelist \in SUBSET Threads
  BY <1>c DEF HandlerCalls
<1>k. /\ \A j \in DOMAIN handlers : \A u \in handlers[j].wakelist : u \in cycle /\ pc[u] = "blocked"
      /\ \A i, j \in DOMAIN handlers : \A u \in Threads :
            u \in handlers[i].wakelist /\ u \in handlers[j].wakelist => i = j
  BY <1>a DEF Woken
<1>o. \A q : (OnStack(q)' <=> OnStack(q)) /\ (Over(q)' <=> Over(q))
  BY <1>b DEF OnStack, Over
<1>p. \/ pc' = pc
      \/ \E t \in handlers[c].wakelist : pc' = [pc EXCEPT ![t] = "resumed"]
  BY DEF Notify, Goto
<1>q. \A u \in Threads : pc'[u] = pc[u] \/ (pc'[u] = "resumed" /\ pc[u] = "blocked" /\ u \in cycle)
  BY <1>c, <1>d, <1>k, <1>p
<1>1. Jobs'
  BY <1>a, <1>b, <1>q, JobsKept
<1>2. ASSUME NEW q \in Queries PROVE Queried(q)'
  <2>1. Queried(q) /\ \A i \in DOMAIN latch[q].waiters : latch[q].waiters[i].thread \in Threads
    BY <1>a, WaiterThreads
  <2> QED  BY <1>b, <1>o, <1>q, <2>1 DEF Queried
<1>3. ASSUME NEW u \in Threads PROVE Asking(u)'
  <2>1. Asking(u) /\ (ManyThreads' <=> ManyThreads)
    BY <1>a, <1>b DEF ManyThreads
  <2> QED  BY <1>b, <1>o, <1>q, <2>1 DEF Asking
<1>4. Woken'
  <2>1. CASE handlers[c].wakelist = {}
    <3>1. handlers' = handlers /\ pc' = pc
      BY <2>1 DEF Notify
    <3> QED  BY <1>a, <1>b, <3>1 DEF Woken
  <2>2. CASE handlers[c].wakelist # {}
    <3>1. PICK t \in handlers[c].wakelist :
             /\ pc' = [pc EXCEPT ![t] = "resumed"]
             /\ handlers' = IF handlers[c].wakelist = {t} THEN RemoveAt(handlers, c)
                            ELSE [handlers EXCEPT ![c].wakelist = @ \ {t}]
      BY <2>2 DEF Notify, Goto
    <3>2. \A u \in Threads \ {t} : pc'[u] = pc[u]
      BY <1>c, <3>1
    <3>3. \A j \in DOMAIN handlers : j # c => t \notin handlers[j].wakelist
      BY <1>d, <1>k
    <3>w. \A j \in DOMAIN handlers : handlers[j].wakelist \subseteq Threads
      <4>1. \A j \in DOMAIN handlers : handlers[j] \in HandlerCalls
        BY <1>c, LenProperties, ElementOfSeq
      <4> QED  BY <4>1 DEF HandlerCalls
    <3>4. CASE handlers[c].wakelist = {t}
      <4>n. PICK n \in Nat : n = Len(handlers)
        BY <1>c, LenProperties
      <4>1. /\ handlers' \in Seq(HandlerCalls) /\ c \in 1 .. n
            /\ DOMAIN handlers = 1 .. n /\ DOMAIN handlers' = 1 .. n - 1
            /\ \A i \in 1 .. n - 1 : handlers'[i] = IF i < c THEN handlers[i] ELSE handlers[i + 1]
        BY <1>c, <3>1, <3>4, <4>n, Removed
      <4>2. \A i \in 1 .. n - 1 :
               \E j \in 1 .. n : /\ handlers'[i] = handlers[j] /\ j # c
                                 /\ i < c => j = i
                                 /\ ~(i < c) => j = i + 1
        BY <4>1
      <4>3. ASSUME NEW i \in DOMAIN handlers', NEW u \in handlers'[i].wakelist
            PROVE  u \in cycle' /\ pc'[u] = "blocked"
        <5>1. PICK j \in 1 .. n : handlers'[i] = handlers[j] /\ j # c
          BY <4>1, <4>2
        <5>2. u \in Threads /\ u \in cycle /\ pc[u] = "blocked" /\ u # t
          BY <1>k, <3>3, <3>w, <4>1, <4>3, <5>1
        <5> QED  BY <1>b, <3>2, <5>2
      <4>4. ASSUME NEW i \in DOMAIN handlers', NEW k \in DOMAIN handlers', NEW u \in Threads,
                   u \in handlers'[i].wakelist, u \in handlers'[k].wakelist
            PROVE  i = k
        <5>1. PICK j \in 1 .. n : /\ handlers'[i] = handlers[j]
                                  /\ i < c => j = i
                                  /\ ~(i < c) => j = i + 1
          BY <4>1, <4>2
        <5>2. PICK m \in 1 .. n : /\ handlers'[k] = handlers[m]
                                  /\ k < c => m = k
                                  /\ ~(k < c) => m = k + 1
          BY <4>1, <4>2
        <5>3. j = m
          BY <1>k, <4>1, <4>4, <5>1, <5>2
        <5> QED  BY <4>1, <5>1, <5>2, <5>3
      <4> QED  BY <4>1, <4>3, <4>4 DEF Woken
    <3>5. CASE handlers[c].wakelist # {t}
      <4>1. handlers' = [handlers EXCEPT ![c].jobs = handlers[c].jobs,
                                         ![c].wakelist = handlers[c].wakelist \ {t}]
        BY <1>c, <3>1, <3>5 DEF HandlerCalls
      <4>2. handlers[c].jobs \in SUBSET Queries /\ handlers[c].wakelist \ {t} \in SUBSET Threads
        BY <1>c, <1>d DEF HandlerCalls
      <4>3. /\ handlers' \in Seq(HandlerCalls) /\ DOMAIN handlers' = DOMAIN handlers
            /\ handlers'[c].wakelist = handlers[c].wakelist \ {t}
            /\ \A j \in DOMAIN handlers \ {c} : handlers'[j] = handlers[j]
        BY <1>c, <4>1, <4>2, CallChanged
      <4>4. \A j \in DOMAIN handlers : /\ handlers'[j].wakelist \subseteq handlers[j].wakelist
                                       /\ t \notin handlers'[j].wakelist
        BY <3>3, <4>3
      <4>5. ASSUME NEW i \in DOMAIN handlers', NEW u \in handlers'[i].wakelist
            PROVE  u \in cycle' /\ pc'[u] = "blocked"
        BY <1>b, <1>k, <3>2, <3>w, <4>3, <4>4
      <4>6. \A i, j \in DOMAIN handlers' : \A u \in Threads :
               u \in handlers'[i].wakelist /\ u \in handlers'[j].wakelist => i = j
        BY <1>k, <4>3, <4>4
      <4> QED  BY <4>3, <4>5, <4>6 DEF Woken
    <3> QED  BY <3>4, <3>5
  <2> QED  BY <2>1, <2>2
<1> QED  BY <1>1, <1>2, <1>3, <1>4

(* A step of a thread that leaves the threads on the wakelists blocked may  *)
(* call the handler once more.                                              *)
LEMMA Calling ==
    ASSUME Types, Woken, CallHandler, active' \in [Queries -> JobStates],
           \A u \in Threads : u \in cycle /\ pc[u] = "blocked" => u \in cycle' /\ pc'[u] = "blocked"
    PROVE  Woken'
<1>a. handlers \in Seq(HandlerCalls) /\ cycle \subseteq Threads
  BY DEF Types, Woken
<1>1. CASE handlers' = handlers
  BY <1>1, <1>a DEF Woken
<1>2. CASE handlers' # handlers
  <2>1. PICK h : h = HandlerCall(active', latch', handlers # << >>)
    OBVIOUS
  <2>2. h \in HandlerCalls /\ h.wakelist = {}
    BY <2>1 DEF HandlerCall, HandlerCalls
  <2>3. handlers' = Append(handlers, h)
    BY <1>2, <2>1 DEF CallHandler
  <2>n. PICK n \in Nat : n = Len(handlers)
    BY <1>a, LenProperties
  <2>4. /\ handlers' \in Seq(HandlerCalls)
        /\ DOMAIN handlers = 1 .. n /\ DOMAIN handlers' = 1 .. n + 1
        /\ \A i \in 1 .. n : handlers'[i] = handlers[i]
        /\ handlers'[n + 1] = h
    BY <1>a, <2>2, <2>3, <2>n, Appended
  <2>5. \A i \in 1 .. n + 1 : i \in 1 .. n \/ i = n + 1
    OBVIOUS
  <2>6. ASSUME NEW i \in DOMAIN handlers', NEW u \in handlers'[i].wakelist
        PROVE  u \in cycle' /\ pc'[u] = "blocked"
    <3>1. i \in DOMAIN handlers /\ handlers'[i] = handlers[i]
      BY <2>2, <2>4, <2>5, <2>6
    <3>2. u \in cycle /\ pc[u] = "blocked"
      BY <2>6, <3>1 DEF Woken
    <3> QED  BY <1>a, <3>2
  <2>7. \A i, j \in DOMAIN handlers' : \A u \in Threads :
           u \in handlers'[i].wakelist /\ u \in handlers'[j].wakelist => i = j
    BY <2>2, <2>4, <2>5 DEF Woken
  <2> QED  BY <2>4, <2>6, <2>7 DEF Woken
<1> QED  BY <1>1, <1>2

(* No step of a thread moves a thread on a wakelist, which is on no latch. *)
LEMMA ThreadKeepsWoken ==
    ASSUME EngineInv, NEW t \in Threads, ThreadStep(t)
    PROVE  Woken'
<1>a. Types /\ Woken /\ (\A q \in Queries : Queried(q)) /\ pc \in [Threads -> Labels]
  BY DEF EngineInv, Types
<1>b. active' \in [Queries -> JobStates]
  BY TypeStep DEF Next, Types
<1>c. CallHandler
  BY DEF ThreadStep
<1>1. \A u \in Threads : u \in cycle /\ pc[u] = "blocked" => u \in cycle' /\ pc'[u] = "blocked"
  <2>1. CASE \/ GetQuery(t) \/ HitUnderLock(t) \/ RaiseOnPoisoned(t) \/ CycleInStack(t)
             \/ ResumedWithCycle(t) \/ ResumedWithValue(t) \/ ProviderPanics(t) \/ EndThread(t)
    <3>1. Quiet(t)
      BY <2>1, QuietSteps
    <3> QED  BY <3>1 DEF Quiet
  <2>2. CASE \/ StartJob(t) \/ TakeLatch(t) \/ WaitOn(t)
             \/ CompleteCache(t) \/ CompleteRemove(t) \/ DropPoison(t)
    <3>1. cycle' = cycle /\ pc[t] # "blocked" /\ \E l \in Labels : pc' = [pc EXCEPT ![t] = l]
      BY <2>2 DEF StartJob, MissUnderLock, TakeLatch, WaitOn, CompleteCache, ProviderDone,
                  CompleteRemove, DropPoison, Goto, Labels
    <3> QED  BY <1>a, <3>1
  <2>3. CASE CompleteSignal(t) \/ DropSignal(t)
    <3>1. PICK k \in Queries : /\ cycle' = cycle /\ pc[t] # "blocked"
                               /\ \E l \in Labels : SignalComplete(t, k, l)
      <4>1. stack[t] # << >>
        BY <2>3 DEF CompleteSignal, DropSignal, EngineInv, Jobs
      <4>2. CurrentJob(t) \in Queries
        BY <1>a, <4>1, JobFacts
      <4> QED  BY <2>3, <4>2 DEF CompleteSignal, DropSignal, Labels
    <3>2. \A i \in DOMAIN latch[k].waiters : latch[k].waiters[i].thread \notin cycle
      BY <1>a DEF Queried
    <3>3. \A u \in Threads : u \in cycle /\ u # t => pc'[u] = pc[u]
      BY <3>1, <3>2 DEF SignalComplete
    <3> QED  BY <3>1, <3>3
  <2> QED  BY <2>1, <2>2, <2>3 DEF ThreadStep
<1> QED  BY <1>a, <1>b, <1>c, <1>1, Calling

-----------------------------------------------------------------------------
(* The theorems *)

(* The invariant holds at first. *)
LEMMA EngineInit ==
    ASSUME Init
    PROVE  EngineInv
<1>1. Types
  <2>1. << >> \in Seq(Queries)
    BY EmptySeq
  <2> QED  BY <2>1, StatesDiffer, LatchShapes DEF Init, Types, Callers, Labels
<1>e. DOMAIN << >> = {}
  OBVIOUS
<1>2. Jobs
  BY <1>e DEF Init, Jobs
<1>3. ASSUME NEW q \in Queries PROVE Queried(q)
  <2>1. /\ starts[q] = 0 /\ cache = {} /\ active[q] = Vacant /\ latch[q] = NoLatch
    BY DEF Init
  <2> QED  BY <1>e, <2>1, StatesDiffer, LatchShapes DEF Queried
<1>4. \A t \in Threads : Asking(t)
  BY DEF Init, Asking
<1>5. Woken
  BY <1>e, EmptySeq DEF Init, Woken
<1> QED  BY <1>1, <1>2, <1>3, <1>4, <1>5 DEF EngineInv

(* Every step keeps it, and no step but the handler's fails an assertion. *)
LEMMA EngineStep ==
    ASSUME EngineInv, [Next]_vars
    PROVE  EngineInv' /\ (JobAsserts => JobAsserts')
<1> DEFINE Rest == /\ Jobs' /\ Woken'
                   /\ (\A q \in Queries : Queried(q)') /\ (\A u \in Threads : Asking(u)')
<1>1. CASE UNCHANGED vars
  <2>1. UNCHANGED <<world, cache, active, latch, stack, at, rooted, pc, target, cycle, starts,
                    handlers, failure>>
    BY <1>1 DEF vars
  <2>2. Types'
    BY <2>1 DEF EngineInv, Types
  <2>3. Jobs'
    BY <2>1, JobsKept DEF EngineInv
  <2>4. ASSUME NEW q \in Queries PROVE Queried(q)'
    <3>1. Queried(q)
      BY DEF EngineInv
    <3> QED  BY <2>1, <3>1 DEF Queried, OnStack, Over
  <2>5. ASSUME NEW u \in Threads PROVE Asking(u)'
    <3>1. Asking(u)
      BY DEF EngineInv
    <3> QED  BY <2>1, <3>1 DEF Asking, Over, ManyThreads
  <2>6. Woken'
    BY <2>1 DEF EngineInv, Woken
  <2> QED  BY <2>1, <2>2, <2>3, <2>4, <2>5, <2>6 DEF EngineInv, JobAsserts
<1>2. CASE Next
  <2>1. ASSUME NEW t \in Threads, ThreadStep(t) PROVE Rest /\ failure' = failure
    <3>w. Woken'
      BY <2>1, ThreadKeepsWoken
    <3>1. CASE \/ GetQuery(t) \/ HitUnderLock(t) \/ RaiseOnPoisoned(t) \/ CycleInStack(t)
               \/ ResumedWithCycle(t) \/ ResumedWithValue(t) \/ ProviderPanics(t) \/ EndThread(t)
      <4>1. Quiet(t) /\ failure' = failure
        BY <3>1, QuietSteps
      <4> QED  BY <3>w, <4>1, QuietKeeps
    <3>2. CASE StartJob(t)
      BY <3>2, <3>w, Starting DEF StartJob
    <3>3. CASE TakeLatch(t)
      BY <3>3, <3>w, TakingLatch DEF TakeLatch
    <3>4. CASE WaitOn(t)
      BY <3>4, <3>w, Waiting DEF WaitOn
    <3>5. CASE CompleteCache(t) \/ CompleteRemove(t) \/ DropPoison(t)
      <4>1. Finishes(t) /\ failure' = failure
        BY <3>5, FinishingSteps
      <4> QED  BY <3>w, <4>1, Finishing
    <3>6. CASE CompleteSignal(t) \/ DropSignal(t)
      <4>1. Signals(t) /\ failure' = failure
        BY <3>6 DEF CompleteSignal, DropSignal, Signals
      <4> QED  BY <3>w, <4>1, Signalling
    <3> QED  BY <2>1, <3>1, <3>2, <3>3, <3>4, <3>5, <3>6 DEF ThreadStep
  <2>2. ASSUME Ended PROVE Rest
    <3>1. UNCHANGED <<world, cache, active, latch, stack, at, rooted, pc, target, cycle, starts,
                      handlers, failure>>
      BY <2>2 DEF Ended, vars
    <3>2. Jobs'
      BY <3>1, JobsKept DEF EngineInv
    <3>3. ASSUME NEW q \in Queries PROVE Queried(q)'
      <4>1. Queried(q)
        BY DEF EngineInv
      <4> QED  BY <3>1, <4>1 DEF Queried, OnStack, Over
    <3>4. ASSUME NEW u \in Threads PROVE Asking(u)'
      <4>1. Asking(u)
        BY DEF EngineInv
      <4> QED  BY <3>1, <4>1 DEF Asking, Over, ManyThreads
    <3>5. Woken'
      BY <3>1 DEF EngineInv, Woken
    <3> QED  BY <3>1, <3>2, <3>3, <3>4, <3>5
  <2>3. ASSUME NEW c \in DOMAIN handlers, RemoveCycle(c) PROVE Rest
    BY <2>3, Removing
  <2>4. ASSUME NEW c \in DOMAIN handlers, Notify(c) PROVE Rest
    BY <2>4, Notifying
  <2>5. Rest /\ failure' \in {failure, "no cycle found", "remove_cycle panicked"}
    <3>1. \/ \E t \in Threads : ThreadStep(t)
          \/ Ended
          \/ \E c \in DOMAIN handlers : RemoveCycle(c) \/ Notify(c)
      BY <1>2 DEF Next, Deadlock
    <3>2. \A c \in DOMAIN handlers :
             RemoveCycle(c) => failure' \in {failure, "remove_cycle panicked"}
      BY DEF RemoveCycle
    <3>3. \A c \in DOMAIN handlers : Notify(c) => failure' \in {failure, "no cycle found"}
      BY DEF Notify
    <3>4. Ended => failure' = failure
      BY DEF Ended, vars
    <3> HIDE DEF Rest
    <3> QED  BY <2>1, <2>2, <2>3, <2>4, <3>1, <3>2, <3>3, <3>4
  <2>6. Types'
    BY <1>2, TypeStep
  <2>7. JobAsserts => JobAsserts'
    BY <2>5 DEF JobAsserts
  <2> QED  BY <2>5, <2>6, <2>7 DEF EngineInv
<1> QED  BY <1>1, <1>2

(* The invariant of the engine. *)
THEOREM EngineInvariant == Spec => [](EngineInv /\ JobAsserts)
<1>1. Init => EngineInv /\ JobAsserts
  BY EngineInit DEF Init, JobAsserts
<1>2. EngineInv /\ JobAsserts /\ [Next]_vars => EngineInv' /\ JobAsserts'
  BY EngineStep
<1> QED  BY <1>1, <1>2, PTL DEF Spec

(* The jobs of a thread, as a set. *)
LEMMA OnStackJobs ==
    ASSUME NEW q
    PROVE  OnStack(q) <=> \E t \in Threads : q \in JobsOf(t)
BY DEF OnStack, JobsOf, ToSet

(* What the invariant says of the properties. *)
LEMMA EngineImplies ==
    ASSUME EngineInv
    PROVE  TypeOK /\ ExecutedOnce /\ WaitersFindValue /\ BlockedIsRegistered
<1>a. Types /\ Jobs /\ (\A q \in Queries : Queried(q)) /\ (\A t \in Threads : Asking(t))
  BY DEF EngineInv
<1>1. TypeOK
  <2>1. \A q \in Queries : active[q].tag = "started" => \E t \in Threads : q \in JobsOf(t)
    BY <1>a, OnStackJobs DEF Queried
  <2>2. ASSUME NEW t \in Threads, NEW i \in DOMAIN stack[t], active[stack[t][i]].tag = "started"
        PROVE  active[stack[t][i]].parent = Parent(t, i)
    <3>1. JobOf(t, i)
      BY <1>a DEF Jobs
    <3>2. active[stack[t][i]] = Started(Parent(t, i))
      BY <2>2, <3>1, StatesDiffer DEF JobOf, Leaving
    <3> QED  BY <3>2 DEF Started
  <2>3. \A t \in Threads : \A i \in DOMAIN stack[t] :
          active[stack[t][i]].tag = "started" =>
            active[stack[t][i]].parent = IF i = 1 THEN NoQuery ELSE stack[t][i - 1]
    BY <2>2 DEF Parent
  <2> QED  BY <1>a, <2>1, <2>3 DEF Types, TypeOK, Callers, Labels
<1>2. ExecutedOnce
  BY <1>a DEF Queried, ExecutedOnce
<1>3. WaitersFindValue
  BY <1>a DEF Asking, Over, WaitersFindValue
<1>4. ASSUME NEW t \in Threads, pc[t] = "blocked", t \notin cycle
      PROVE  /\ ~latch[target[t]].complete
             /\ \E i \in DOMAIN latch[target[t]].waiters :
                   latch[target[t]].waiters[i].thread = t
             /\ \E u \in Threads : target[t] \in JobsOf(u)
  <2>1. PICK k \in Queries : k = target[t]
    BY <1>4, <1>a DEF Asking
  <2>2. /\ \E i \in DOMAIN latch[k].waiters : latch[k].waiters[i].thread = t
        /\ latch[k].waiters # << >>
    BY <1>4, <1>a, <2>1 DEF Asking
  <2>3. latch[k].made /\ ~latch[k].complete
    BY <1>a, <2>2, WaiterThreads DEF Queried
  <2>4. OnStack(k)
    BY <1>a, <2>3 DEF Queried
  <2> QED  BY <2>1, <2>2, <2>3, <2>4, OnStackJobs
<1>5. BlockedIsRegistered
  BY <1>4 DEF BlockedIsRegistered
<1> QED  BY <1>1, <1>2, <1>3, <1>5

(* A started query is on some stack, and every stack holds its jobs in the  *)
(* order of their parents, which find_cycle_in_stack and the handler follow.*)
THEOREM EngineTypes == Spec => []TypeOK
<1>1. EngineInv /\ JobAsserts => TypeOK
  BY EngineImplies
<1> QED  BY <1>1, EngineInvariant, PTL

(* No provider is started twice for a key: the second look into the cache   *)
(* under the shard's lock closes the gap between a job's completion and its *)
(* leaving the map of active jobs.                                          *)
THEOREM ProvidersRunOnce == Spec => []ExecutedOnce
<1>1. EngineInv /\ JobAsserts => ExecutedOnce
  BY EngineImplies
<1> QED  BY <1>1, EngineInvariant, PTL

(* A waiter that wait_on returns to finds a value, or a poisoned job: the   *)
(* panic of wait_for_query is reached only after another panic.             *)
THEOREM WaitersAreServed == Spec => []WaitersFindValue
<1>1. EngineInv /\ JobAsserts => WaitersFindValue
  BY EngineImplies
<1> QED  BY <1>1, EngineInvariant, PTL

(* No wake-up is lost between taking the latch, waiting on it and the       *)
(* signal, whatever waiters the handler takes off.                          *)
THEOREM NoWakeupLost == Spec => []BlockedIsRegistered
<1>1. EngineInv /\ JobAsserts => BlockedIsRegistered
  BY EngineImplies
<1> QED  BY <1>1, EngineInvariant, PTL

(* A job that completes or is dropped is still active, and cycle_error of   *)
(* the serial build finds its query on the stack.                           *)
THEOREM JobsFoundActive == Spec => []JobAsserts
BY EngineInvariant, PTL

-----------------------------------------------------------------------------
(* Without panics *)

Healthy == world.panics = {} /\ world.fatal = {}

NoPanic ==
    Healthy => /\ \A q \in Queries : active[q] # Poisoned
               /\ \A t \in Threads : pc[t] \notin {"unwind", "poisoned", "panicked"}

(* Nothing is poisoned, nobody panics, and no job is active at the end. *)
HealthyJobs ==
    Healthy => /\ \A q \in Queries : active[q] # Poisoned
               /\ \A t \in Threads : pc[t] # "panicked"
               /\ AllEnded => \A q \in Queries : active[q] = Vacant

(* A step of a thread raises no panic when no provider does and no cycle    *)
(* is fatal: a waiter that was resumed finds its value.                     *)
LEMMA NoPanicStep ==
    ASSUME EngineInv, NoPanic, [Next]_vars
    PROVE  NoPanic'
<1> SUFFICES ASSUME Healthy'
             PROVE  /\ \A q \in Queries : active'[q] # Poisoned
                    /\ \A t \in Threads : pc'[t] \notin {"unwind", "poisoned", "panicked"}
  BY DEF NoPanic
<1> DEFINE Calm == /\ \A q \in Queries : active'[q] # Poisoned
                   /\ \A t \in Threads : pc'[t] \notin {"unwind", "poisoned", "panicked"}
<1>t. /\ pc \in [Threads -> Labels] /\ active \in [Queries -> JobStates] /\ Types
  BY DEF EngineInv, Types
<1>w. world' = world
  BY DEF Next, ThreadStep, Deadlock, Ended, vars, GetQuery, HitUnderLock, StartJob, TakeLatch,
         RaiseOnPoisoned, CycleInStack, WaitOn, ResumedWithCycle, ResumedWithValue,
         CompleteCache, CompleteRemove, CompleteSignal, ProviderPanics, DropPoison, DropSignal,
         EndThread, RemoveCycle, Notify
<1>h. Healthy /\ world.panics = {} /\ world.fatal = {}
  BY <1>w DEF Healthy
<1>a. /\ \A q \in Queries : active[q] # Poisoned
      /\ \A t \in Threads : pc[t] \notin {"unwind", "poisoned", "panicked"}
  BY <1>h DEF NoPanic
<1>1. CASE UNCHANGED vars
  BY <1>1, <1>a DEF vars
<1>2. ASSUME NEW t \in Threads, ThreadStep(t) PROVE Calm
  <2>r. /\ pc[t] \in {"try", "resumed"} => target[t] \in Queries
        /\ pc[t] = "resumed" /\ t \notin cycle => target[t] \in cache \/ active[target[t]] = Poisoned
        /\ stack[t] # << >> => CurrentJob(t) \in Queries
        /\ pc[t] \in {"cached", "removed", "poisoned"} => stack[t] # << >>
    BY <1>t, JobFacts DEF EngineInv, Asking, Over, Jobs
  <2>g. Answered(t) => \A u \in Threads : pc'[u] = pc[u] \/ pc'[u] = "run"
    BY <1>t DEF Answered, Goto
  <2>c. HandleCycleError(t) => Answered(t)
    BY <1>h DEF HandleCycleError
  <2>l. \A l \in Labels : Goto(t, l) => \A u \in Threads : pc'[u] = pc[u] \/ pc'[u] = l
    BY <1>t DEF Goto
  <2>i. /\ "run" \in Labels /\ "try" \in Labels /\ "latch" \in Labels /\ "resumed" \in Labels
        /\ "blocked" \in Labels /\ "cached" \in Labels /\ "removed" \in Labels /\ "done" \in Labels
    BY DEF Labels
  <2>1. CASE GetQuery(t)
    BY <1>a, <2>1, <2>g, <2>l, <2>i DEF GetQuery
  <2>2. CASE HitUnderLock(t)
    BY <1>a, <2>2, <2>g DEF HitUnderLock
  <2>3. CASE StartJob(t)
    <3>1. target[t] \in Queries /\ CurrentJob(t) \in Callers
      BY <1>t, <2>3, <2>r, JobFacts DEF StartJob, MissUnderLock
    <3>2. \A q \in Queries : active'[q] = active[q] \/ active'[q] = Started(CurrentJob(t))
      BY <1>t, <2>3, <3>1 DEF StartJob
    <3>3. \A q \in Queries : active'[q] # Poisoned
      BY <1>a, <3>1, <3>2, StatesDiffer
    <3> QED  BY <1>a, <2>3, <2>l, <2>i, <3>3 DEF StartJob
  <2>4. CASE TakeLatch(t)
    BY <1>a, <2>4, <2>l, <2>i DEF TakeLatch
  <2>5. CASE RaiseOnPoisoned(t)
    BY <1>a, <2>5, <2>r DEF RaiseOnPoisoned, MissUnderLock
  <2>6. CASE CycleInStack(t)
    BY <1>a, <2>6, <2>c, <2>g DEF CycleInStack
  <2>7. CASE WaitOn(t)
    BY <1>a, <2>7, <2>l, <2>i DEF WaitOn
  <2>8. CASE ResumedWithCycle(t)
    BY <1>a, <2>8, <2>c, <2>g DEF ResumedWithCycle
  <2>9. CASE ResumedWithValue(t)
    BY <1>a, <2>9, <2>g, <2>r DEF ResumedWithValue
  <2>10. CASE CompleteCache(t)
    BY <1>a, <2>10, <2>l, <2>i DEF CompleteCache
  <2>11. CASE CompleteRemove(t)
    <3>1. \A q \in Queries : active'[q] = active[q] \/ active'[q] = Vacant
      BY <1>t, <2>11 DEF CompleteRemove
    <3>2. \A q \in Queries : active'[q] # Poisoned
      BY <1>a, <3>1, StatesDiffer
    <3> QED  BY <1>a, <2>11, <2>l, <2>i, <3>2 DEF CompleteRemove
  <2>12. CASE CompleteSignal(t)
    <3>1. SignalComplete(t, CurrentJob(t), "run") /\ active' = active
      BY <2>12 DEF CompleteSignal
    <3>2. \A u \in Threads : pc'[u] \in {"resumed", "run", pc[u]}
      BY <3>1 DEF SignalComplete
    <3> QED  BY <1>a, <3>1, <3>2
  <2>13. CASE ProviderPanics(t)
    BY <1>h, <2>13 DEF ProviderPanics
  <2>14. CASE DropPoison(t)
    BY <1>a, <2>14 DEF DropPoison
  <2>15. CASE DropSignal(t)
    BY <1>a, <2>15 DEF DropSignal
  <2>16. CASE EndThread(t)
    BY <1>a, <2>16, <2>l, <2>i DEF EndThread
  <2> HIDE DEF Calm
  <2> QED
    BY <1>2, <2>1, <2>2, <2>3, <2>4, <2>5, <2>6, <2>7, <2>8, <2>9, <2>10, <2>11, <2>12, <2>13,
       <2>14, <2>15, <2>16 DEF ThreadStep
<1>3. CASE Ended \/ \E c \in DOMAIN handlers : RemoveCycle(c)
  BY <1>3, <1>a DEF RemoveCycle, Ended, vars
<1>4. ASSUME NEW c \in DOMAIN handlers, Notify(c) PROVE Calm
  <2>1. active' = active /\ (pc' = pc \/ \E t \in handlers[c].wakelist : Goto(t, "resumed"))
    BY <1>4 DEF Notify
  <2>2. \A u \in Threads : pc'[u] = pc[u] \/ pc'[u] = "resumed"
    BY <1>t, <2>1 DEF Goto
  <2> QED  BY <1>a, <2>1, <2>2
<1> QED  BY <1>1, <1>2, <1>3, <1>4 DEF Next, Deadlock

(* Cycles alone poison nothing and make nobody panic, and when every thread *)
(* has ended no job is active: what encode_query_results asserts.           *)
THEOREM HealthyJobsEnd == Spec => []HealthyJobs
<1>1. ASSUME Init PROVE NoPanic
  <2>1. \A q \in Queries : active[q] = Vacant
    BY <1>1 DEF Init
  <2>2. \A t \in Threads : pc[t] = "run"
    BY <1>1 DEF Init
  <2> QED  BY <2>1, <2>2, StatesDiffer DEF NoPanic
<1>2. EngineInv /\ NoPanic /\ [Next]_vars => NoPanic'
  BY NoPanicStep
<1>3. EngineInv /\ NoPanic => HealthyJobs
  <2> SUFFICES ASSUME EngineInv, NoPanic, Healthy, AllEnded, NEW q \in Queries
               PROVE  active[q] = Vacant
    BY DEF NoPanic, HealthyJobs
  <2>1. \A t \in Threads : stack[t] = << >>
    BY DEF AllEnded, EngineInv, Jobs
  <2>2. ~OnStack(q)
    BY <2>1 DEF OnStack
  <2>3. active[q] \in JobStates /\ active[q].tag # "started" /\ active[q] # Poisoned
    BY <2>2 DEF EngineInv, Types, Queried, NoPanic
  <2> QED  BY <2>3, StatesDiffer
<1> QED  BY <1>1, <1>2, <1>3, EngineInvariant, PTL DEF Spec

=============================================================================
