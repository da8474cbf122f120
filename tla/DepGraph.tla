------------------------------- MODULE DepGraph -------------------------------
(***************************************************************************)
(* Incremental query evaluation: the red-green dependency graph of         *)
(* compiler/rustc_query_system/src/dep_graph/graph.rs and the functions of *)
(* query/plumbing.rs that use it.                                          *)
(*                                                                         *)
(* A session starts from the graph, the cached results and the diagnostics *)
(* of the previous session.  A query whose node can be marked green,       *)
(* because all it read last time is green, keeps its old result; any other *)
(* is executed again, and its node becomes green or red by comparing the   *)
(* fingerprints of the results.  Marking works along the old edges, in the *)
(* order of the reads, and forces the queries it cannot mark.  Threads     *)
(* mark and execute the same nodes at the same time; a job is executed by  *)
(* one thread while the others wait, as in QueryJobs.                      *)
(*                                                                         *)
(* The compiler's queries are a parameter.  A provider reads queries one   *)
(* after the other, and what it reads next and what it returns depends on  *)
(* the values read so far; eval_always providers return an input of the    *)
(* session.  The previous session's graph is what evaluating the program   *)
(* on the previous inputs gives, and evaluating it on the current ones,    *)
(* from scratch, is the reference the results are compared with.           *)
(*                                                                         *)
(* A node is named by its query, an anonymous node by the sequence of the  *)
(* nodes it depends on, so that the name stands for the DepNodeIndex.      *)
(***************************************************************************)
EXTENDS Integers, FiniteSets, SequencesExt

CONSTANTS
    Threads,
    Queries,   \* the keys
    NoQuery,   \* no query: the provider returns
    Values,    \* results, and their fingerprints
    Worlds     \* the worlds: records with the fields
               \*   program   for each query a function from the values read so
               \*             far to the provider's next step, [read, value]
               \*   roots     [Threads -> Seq([q, ensure])]
               \*   inputs    the eval_always queries
               \*   anon, nohash, unforceable, disk, warns
               \*             the queries with these modifiers: anonymous, no
               \*             result hash, key not reconstructible, result
               \*             cached on disk, provider emits a diagnostic

ZERO == -1   \* Fingerprint::ZERO

ASSUME GraphAssumption ==
    /\ IsFiniteSet(Threads) /\ IsFiniteSet(Queries) /\ NoQuery \notin Queries
    /\ Values \subseteq Nat
    /\ \A w \in Worlds :
          /\ w.inputs \subseteq Queries /\ w.anon \subseteq Queries
          /\ w.roots \in [Threads -> Seq([q : Queries, ensure : BOOLEAN])]
          /\ w.anon \intersect (w.inputs \union w.warns \union w.disk) = {}
          /\ \A q \in Queries \ w.inputs : << >> \in DOMAIN w.program[q]

VARIABLES
    world,      \* the world chosen at the start
    input,      \* input[q]: what the eval_always query q returns now
    prev,       \* the previous session: its graph, results and diagnostics
    scratch,    \* the reference: this session evaluated from scratch
    colour,     \* DepNodeColorMap, over the nodes of the previous graph
    promoted,   \* prev_index_to_index: old nodes in the current graph
    fresh,      \* new_node_to_index: nodes the previous graph does not have
    cache,      \* the query caches: result and dep node index
    active,     \* the queries that some thread is executing
    processed,  \* processed_side_effects
    stored,     \* current_side_effects: nodes with diagnostics to be saved
    emitted,    \* the queries whose diagnostic was emitted in this session
    stack,      \* stack[t]: the calls in progress, innermost last
    todo,       \* todo[t]: the root queries t has still to ask for
    left,       \* the old nodes exec_cache_promotions has still to visit
    failure     \* the assertion, unwrap or panic that failed, and for which node

fixed   == <<world, input, prev, scratch>>
graph   == <<colour, promoted, fresh>>
effects == <<processed, stored, emitted>>
jobs    == <<cache, active>>
control == <<todo, left, failure>>
vars    == <<fixed, graph, effects, jobs, stack, control>>

-----------------------------------------------------------------------------
(* Evaluation of a program, the source of the previous graph and the reference *)

(* read_index: a read is recorded once, in the order of the first reads. *)
AddRead(reads, n) == IF n \in ToSet(reads) THEN reads ELSE Append(reads, n)

(* with_anon_task: an anonymous task that read one node is that node. *)
AnonNode(reads) == IF Len(reads) = 1 THEN reads[1] ELSE reads

Step(w, q, inp, vals) ==
    IF q \in w.inputs THEN [read |-> NoQuery, value |-> inp[q]] ELSE w.program[q][vals]

Session(w, inp) ==
    LET value[q \in Queries] ==
            LET go[vals \in Seq(Values)] ==
                    LET s == Step(w, q, inp, vals)
                    IN  IF s.read = NoQuery THEN s.value ELSE go[Append(vals, value[s.read])]
            IN  go[<< >>]
        reads[q \in Queries] ==
            LET go[vals \in Seq(Values)] ==
                    LET s == Step(w, q, inp, vals)
                    IN  IF s.read = NoQuery THEN << >>
                        ELSE <<s.read>> \o go[Append(vals, value[s.read])]
            IN  go[<< >>]
        trail[q \in Queries] ==
            LET node(r) == IF r \in w.anon THEN AnonNode(trail[r][Len(reads[r])]) ELSE r
                upto[k \in 0..Len(reads[q])] ==
                    IF k = 0 THEN << >> ELSE AddRead(upto[k - 1], node(reads[q][k]))
            IN  upto
        edges(q) == trail[q][Len(reads[q])]
        below[q \in Queries] == {q} \union UNION {below[r] : r \in ToSet(reads[q])}
        needed == UNION {below[r.q] : r \in UNION {ToSet(w.roots[t]) : t \in Threads}}
        nodes  == (needed \ w.anon) \union
                  {edges(q) : q \in {r \in needed \intersect w.anon : Len(edges(r)) # 1}}
    IN  [needed |-> needed,
         value  |-> [q \in needed |-> value[q]],
         reads  |-> [q \in needed |-> reads[q]],
         trail  |-> [q \in needed |-> trail[q]],
         nodeOf |-> [q \in needed |-> IF q \in w.anon THEN AnonNode(edges(q)) ELSE q],
         node   |-> [n \in nodes |->
                       IF n \in Queries
                       THEN [edges |-> edges(n),
                             fp    |-> IF n \in w.nohash THEN ZERO ELSE value[n]]
                       ELSE [edges |-> n, fp |-> ZERO]]]

(* The values that q has after its first k reads, and the nodes it read. *)
Seen(s, q, k) == [j \in 1..k |-> s.value[s.reads[q][j]]]
Edges(s, q)   == s.trail[q][Len(s.reads[q])]

(* What Session computes, by its equations: every query takes the steps of  *)
(* its provider on the values of what it reads, and none reads itself, not  *)
(* even through others.                                                     *)
IsSession(w, inp, s) ==
    /\ s.needed \subseteq Queries
    /\ \A t \in Threads : \A r \in ToSet(w.roots[t]) : r.q \in s.needed
    /\ s.value \in [s.needed -> Values]
    /\ s.reads \in [s.needed -> Seq(s.needed)]
    /\ DOMAIN s.nodeOf = s.needed
    /\ \A T \in SUBSET s.needed : T # {} => \E q \in T : ToSet(s.reads[q]) \intersect T = {}
    /\ \A q \in s.needed :
          /\ \A k \in 0..Len(s.reads[q]) :
                Step(w, q, inp, Seen(s, q, k)).read =
                   IF k < Len(s.reads[q]) THEN s.reads[q][k + 1] ELSE NoQuery
          /\ Step(w, q, inp, Seen(s, q, Len(s.reads[q]))).value = s.value[q]
          /\ s.trail[q][0] = << >>
          /\ \A k \in 1..Len(s.reads[q]) :
                s.trail[q][k] = AddRead(s.trail[q][k - 1], s.nodeOf[s.reads[q][k]])
          /\ s.nodeOf[q] = IF q \in w.anon THEN AnonNode(Edges(s, q)) ELSE q
          /\ q \in w.anon /\ Len(Edges(s, q)) # 1 => Edges(s, q) \notin Queries
    /\ DOMAIN s.node = (s.needed \ w.anon) \union
          {Edges(s, q) : q \in {r \in s.needed \intersect w.anon : Len(Edges(s, r)) # 1}}
    /\ \A n \in DOMAIN s.node :
          s.node[n] = IF n \in Queries
                      THEN [edges |-> Edges(s, n),
                            fp    |-> IF n \in w.nohash THEN ZERO ELSE s.value[n]]
                      ELSE [edges |-> n, fp |-> ZERO]

(* Queries that read each other are an error of the compiler: no program    *)
(* here has a cycle, whatever its inputs, so that its evaluation ends.      *)
ASSUME EvaluationAssumption ==
    \A w \in Worlds : \A inp \in [w.inputs -> Values] : IsSession(w, inp, Session(w, inp))

-----------------------------------------------------------------------------
(* Control *)

Top(t) == Last(stack[t])

Frame(l, n) ==
    [pc |-> l, n |-> n, i |-> 1, vals |-> << >>, reads |-> << >>, val |-> 0,
     ok |-> FALSE, green |-> FALSE]

At(t, labels) == failure.why = "" /\ stack[t] # << >> /\ Top(t).pc \in labels

Continue(t, f) == stack' = [stack EXCEPT ![t] = Append(Front(@), f)]
Goto(t, l)     == Continue(t, [Top(t) EXCEPT !.pc = l])
Call(t, f, g)  == stack' = [stack EXCEPT ![t] = Append(Append(Front(@), f), g)]

(* The callee's answer is left with the caller. *)
Return(t, ok) ==
    stack' = [stack EXCEPT ![t] =
                LET rest == Front(@)
                IN  IF rest = << >> THEN << >>
                    ELSE Append(Front(rest), [Last(rest) EXCEPT !.ok = ok])]

Fail(t, why) == /\ failure' = [why |-> why, n |-> Top(t).n]
                /\ UNCHANGED <<todo, left>>

NoFailure == UNCHANGED control

IsEvalAlways(n) == n \in world.inputs
Forceable(n)    == n \in Queries /\ n \notin world.unforceable
Known(n)        == n \in DOMAIN colour
Exists(q)       == IF Known(q) THEN q \in DOMAIN promoted ELSE q \in DOMAIN fresh

Fingerprint(q, v) == IF q \in world.nohash THEN ZERO ELSE v

(* m with an entry for n, unless it has one already. *)
Added(m, n, e) == [x \in DOMAIN m \union {n} |-> IF x \in DOMAIN m THEN m[x] ELSE e]

(* send to the encoder unless the node has an index already. *)
Entered(m, n, edges, fp) == Added(m, n, [edges |-> edges, fp |-> fp])

-----------------------------------------------------------------------------
(* Marking: try_mark_green, try_mark_parent_green, try_mark_previous_green *)

(* The answer is at hand if the node is new or coloured. *)
TryMarkGreen(t, l) ==
    LET q == Top(t).n
    IN  IF Known(q) /\ colour[q] = "none"
        THEN Call(t, [Top(t) EXCEPT !.pc = l], Frame("mark", q))
        ELSE Continue(t, [Top(t) EXCEPT !.pc = l, !.ok = Known(q) /\ colour[q] = "green"])

PrevDepsReversed(n) == Reverse(prev.node[n].edges)

PrevDeps(n) == prev.node[n].edges

Dep(t) == PrevDeps(Top(t).n)[Top(t).i]

AtDep(t, labels, c) ==
    /\ At(t, labels)
    /\ Top(t).i <= Len(PrevDeps(Top(t).n))
    /\ colour[Dep(t)] = c
    /\ UNCHANGED <<fixed, graph, effects, jobs>>

DepGreen(t) ==
    /\ AtDep(t, {"mark", "forced"}, "green")
    /\ Continue(t, [Top(t) EXCEPT !.pc = "mark", !.i = @ + 1])
    /\ NoFailure

DepRed(t) ==
    /\ AtDep(t, {"mark", "forced"}, "red")
    /\ Return(t, FALSE)
    /\ NoFailure

(* An eval_always dependency is not marked but forced.  A dependency that   *)
(* was forced has a colour.                                                 *)
DepUnknown(t) ==
    /\ AtDep(t, {"mark", "forced"}, "none")
    /\ IF Top(t).pc = "forced"
       THEN Fail(t, "forcing should have set the color") /\ UNCHANGED stack
       ELSE /\ IF IsEvalAlways(Dep(t))
               THEN Continue(t, [Top(t) EXCEPT !.pc = "tried", !.ok = FALSE])
               ELSE Call(t, [Top(t) EXCEPT !.pc = "tried"], Frame("mark", Dep(t)))
            /\ NoFailure

DepMarked(t) ==
    /\ At(t, {"tried"}) /\ Top(t).ok
    /\ Continue(t, [Top(t) EXCEPT !.pc = "mark", !.i = @ + 1])
    /\ UNCHANGED <<fixed, graph, effects, jobs>> /\ NoFailure

(* try_force_from_dep_node: an anonymous node, and one whose key cannot be  *)
(* reconstructed, has no callback.                                          *)
TryForce(t) ==
    /\ At(t, {"tried"}) /\ ~Top(t).ok
    /\ IF Forceable(Dep(t)) THEN Call(t, [Top(t) EXCEPT !.pc = "forced"], Frame("get", Dep(t)))
                            ELSE Return(t, FALSE)
    /\ UNCHANGED <<fixed, graph, effects, jobs>> /\ NoFailure

(* promote_node_and_deps_to_current, under the lock of prev_index_to_index. *)
Promote(t) ==
    /\ At(t, {"mark"}) /\ Top(t).i > Len(PrevDeps(Top(t).n))
    /\ LET n == Top(t).n
       IN  IF n \in DOMAIN promoted \/ ToSet(PrevDeps(n)) \subseteq DOMAIN promoted
           THEN /\ promoted' = Entered(promoted, n, PrevDeps(n), prev.node[n].fp)
                /\ Goto(t, IF n \in prev.warned THEN "emit" ELSE "green")
                /\ NoFailure
           ELSE Fail(t, "dependency without index") /\ UNCHANGED <<promoted, stack>>
    /\ UNCHANGED <<fixed, colour, fresh, effects, jobs>>

EmitWithoutStoring(t) ==
    /\ At(t, {"emit"})
    /\ processed' = processed \union {Top(t).n} /\ emitted' = emitted \union {Top(t).n}
    /\ Goto(t, "green") /\ NoFailure
    /\ UNCHANGED <<fixed, graph, jobs, stored>>

(* emit_side_effects, under the lock of processed_side_effects: the first   *)
(* thread stores the diagnostics for the next session and emits them.       *)
EmitSideEffects(t) ==
    /\ At(t, {"emit"})
    /\ LET n == Top(t).n
       IN  IF n \in stored \ processed
           THEN Fail(t, "side effects stored twice") /\ UNCHANGED <<processed, stored, emitted, stack>>
           ELSE /\ processed' = processed \union {n}
                /\ stored'    = stored \union {n}
                /\ emitted'   = emitted \union {n}
                /\ Goto(t, "green") /\ NoFailure
    /\ UNCHANGED <<fixed, graph, jobs>>

MarkGreen(t) ==
    /\ At(t, {"green"})
    /\ colour' = [colour EXCEPT ![Top(t).n] = "green"]
    /\ Return(t, TRUE)
    /\ UNCHANGED <<fixed, promoted, fresh, effects, jobs>> /\ NoFailure

-----------------------------------------------------------------------------
(* Queries: get_query_incr, force_query, execute_job_incr *)

(* ensure_must_run: a query whose node is green need not run. *)
Ensure(t) ==
    /\ At(t, {"ensure"})
    /\ IF IsEvalAlways(Top(t).n) THEN Goto(t, "get") ELSE TryMarkGreen(t, "ensured")
    /\ UNCHANGED <<fixed, graph, effects, jobs>> /\ NoFailure

Ensured(t) ==
    /\ At(t, {"ensured"})
    /\ IF Top(t).ok THEN Return(t, TRUE) ELSE Goto(t, "get")
    /\ UNCHANGED <<fixed, graph, effects, jobs>> /\ NoFailure

CacheHit(t) ==
    /\ At(t, {"get"}) /\ Top(t).n \in DOMAIN cache
    /\ Return(t, TRUE)
    /\ UNCHANGED <<fixed, graph, effects, jobs>> /\ NoFailure

StartJobAnyway(t) ==
    /\ At(t, {"get"}) /\ Top(t).n \notin DOMAIN cache
    /\ active' = active \union {Top(t).n}
    /\ Goto(t, "start")
    /\ UNCHANGED <<fixed, graph, effects, cache>> /\ NoFailure

(* try_execute_query: a query that another thread executes is waited for. *)
StartJob(t) ==
    /\ At(t, {"get"}) /\ Top(t).n \notin DOMAIN cache \union active
    /\ active' = active \union {Top(t).n}
    /\ Goto(t, "start")
    /\ UNCHANGED <<fixed, graph, effects, cache>> /\ NoFailure

TryLoad(t) ==
    /\ At(t, {"start"})
    /\ IF Top(t).n \in world.anon \union world.inputs THEN Goto(t, "marked")
                                                      ELSE TryMarkGreen(t, "marked")
    /\ UNCHANGED <<fixed, graph, effects, jobs>> /\ NoFailure

(* The node is green: the old result is loaded, or computed again with the  *)
(* reads ignored.                                                           *)
LoadGreen(t) ==
    /\ At(t, {"marked"}) /\ Top(t).ok
    /\ IF Top(t).n \in world.disk
       THEN Continue(t, [Top(t) EXCEPT !.pc = "complete", !.green = TRUE,
                                         !.val = prev.value[Top(t).n]])
       ELSE Continue(t, [Top(t) EXCEPT !.pc = "run", !.green = TRUE])
    /\ UNCHANGED <<fixed, graph, effects, jobs>> /\ NoFailure

(* with_task asserts that the node does not exist. *)
StartTask(t) ==
    /\ At(t, {"marked"}) /\ ~Top(t).ok
    /\ IF Top(t).n \notin world.anon /\ Exists(Top(t).n)
       THEN Fail(t, "forcing query with existing node") /\ UNCHANGED stack
       ELSE Goto(t, "run") /\ NoFailure
    /\ UNCHANGED <<fixed, graph, effects, jobs>>

NextStep(t) == Step(world, Top(t).n, input, Top(t).vals)

Ask(t) ==
    /\ At(t, {"run"}) /\ NextStep(t).read \in Queries \ DOMAIN cache
    /\ Call(t, Top(t), Frame("get", NextStep(t).read))
    /\ UNCHANGED <<fixed, graph, effects, jobs>> /\ NoFailure

(* A read is recorded unless a green result is being computed again. *)
Read(t) ==
    /\ At(t, {"run"}) /\ NextStep(t).read \in DOMAIN cache
    /\ LET r == cache[NextStep(t).read]
       IN  Continue(t, [Top(t) EXCEPT
                            !.vals  = Append(@, r.val),
                            !.reads = IF Top(t).green THEN @ ELSE AddRead(@, r.node)])
    /\ UNCHANGED <<fixed, graph, effects, jobs>> /\ NoFailure

(* The provider returns; its diagnostic is emitted on the way.  A result    *)
(* computed again must hash to the old fingerprint (incremental_verify_ich).*)
Finish(t) ==
    /\ At(t, {"run"}) /\ NextStep(t).read = NoQuery
    /\ LET q == Top(t).n
           v == NextStep(t).value
       IN  IF Top(t).green /\ (colour[q] # "green" \/ Fingerprint(q, v) # prev.node[q].fp)
           THEN Fail(t, "unstable fingerprint") /\ UNCHANGED <<emitted, stack>>
           ELSE /\ emitted' = emitted \union ({q} \intersect world.warns)
                /\ Continue(t, [Top(t) EXCEPT !.pc = IF Top(t).green THEN "complete" ELSE "intern",
                                              !.val = v])
                /\ NoFailure
    /\ UNCHANGED <<fixed, graph, processed, stored, jobs>>

(* intern_node, or the end of with_anon_task: the node enters the current   *)
(* graph.  Only a node of the previous graph gets a colour.                 *)
Intern(t) ==
    /\ At(t, {"intern"})
    /\ LET f  == Top(t)
           fp == Fingerprint(f.n, f.val)
       IN  IF f.n \in world.anon
           THEN /\ fresh' = IF Len(f.reads) > 1 THEN Entered(fresh, f.reads, f.reads, ZERO)
                                                ELSE fresh
                /\ UNCHANGED promoted
                /\ Goto(t, "complete")
           ELSE IF Known(f.n)
           THEN /\ promoted' = Entered(promoted, f.n, f.reads, fp)
                /\ UNCHANGED fresh
                /\ Goto(t, "colour")
           ELSE /\ fresh' = Entered(fresh, f.n, f.reads, fp)
                /\ UNCHANGED promoted
                /\ Goto(t, "complete")
    /\ UNCHANGED <<fixed, colour, effects, jobs>> /\ NoFailure

ColourByFingerprintOnly(q, v) == IF Fingerprint(q, v) = prev.node[q].fp THEN "green" ELSE "red"

(* A result that is not hashed counts as changed. *)
NewColour(q, v) ==
    IF q \notin world.nohash /\ v = prev.node[q].fp THEN "green" ELSE "red"

Colour(t) ==
    /\ At(t, {"colour"})
    /\ LET q == Top(t).n
       IN  IF colour[q] # "none"
           THEN Fail(t, "duplicate color") /\ UNCHANGED <<colour, stack>>
           ELSE /\ colour' = [colour EXCEPT ![q] = NewColour(q, Top(t).val)]
                /\ Goto(t, "complete") /\ NoFailure
    /\ UNCHANGED <<fixed, promoted, fresh, effects, jobs>>

CompleteKeepsJob(t) ==
    /\ At(t, {"complete"})
    /\ cache' = Added(cache, Top(t).n, [val |-> Top(t).val, node |-> Top(t).n])
    /\ Return(t, TRUE) /\ NoFailure
    /\ UNCHANGED <<fixed, graph, effects, active>>

(* The diagnostics of an executed query are stored for the next session,    *)
(* and JobOwner::complete fills the cache and removes the job.              *)
Complete(t) ==
    /\ At(t, {"complete"})
    /\ LET f    == Top(t)
           node == IF f.n \in world.anon THEN AnonNode(f.reads) ELSE f.n
       IN  IF ~f.green /\ f.n \in world.warns \intersect stored
           THEN Fail(t, "side effects stored twice") /\ UNCHANGED <<stored, cache, active, stack>>
           ELSE /\ stored' = IF f.green THEN stored
                             ELSE stored \union ({f.n} \intersect world.warns)
                /\ cache'  = Added(cache, f.n, [val |-> f.val, node |-> node])
                /\ active' = active \ {f.n}
                /\ Return(t, TRUE) /\ NoFailure
    /\ UNCHANGED <<fixed, graph, processed, emitted>>

-----------------------------------------------------------------------------
(* The session *)

Begin(t) ==
    /\ failure.why = "" /\ stack[t] = << >> /\ todo[t] # << >>
    /\ LET r == Head(todo[t])
       IN  stack' = [stack EXCEPT ![t] = <<Frame(IF r.ensure THEN "ensure" ELSE "get", r.q)>>]
    /\ todo' = [todo EXCEPT ![t] = Tail(@)]
    /\ UNCHANGED <<fixed, graph, effects, jobs, left, failure>>

AllIdle == \A t \in Threads : stack[t] = << >> /\ todo[t] = << >>

Main == CHOOSE t \in Threads : TRUE

(* try_load_from_on_disk_cache of the callback of a node. *)
CachePromotable(n) == colour[n] = "green" /\ Forceable(n) /\ n \in world.disk

(* exec_cache_promotions: before the new cache is written, the results on   *)
(* disk of the nodes that are green are brought into memory.                *)
CachePromotion ==
    /\ failure.why = "" /\ AllIdle /\ left # << >>
    /\ left' = Tail(left)
    /\ stack' = IF CachePromotable(Head(left))
                THEN [stack EXCEPT ![Main] = <<Frame("get", Head(left))>>]
                ELSE stack
    /\ UNCHANGED <<fixed, graph, effects, jobs, todo, failure>>

Init ==
    /\ world \in Worlds
    /\ input \in [world.inputs -> Values]
    /\ \E before \in [world.inputs -> Values] :
          LET s == Session(world, before)
          IN  prev = [node |-> s.node, value |-> s.value, warned |-> s.needed \intersect world.warns]
    /\ scratch   = Session(world, input)
    /\ colour    = [n \in DOMAIN prev.node |-> "none"]
    /\ promoted  = << >>
    /\ fresh     = << >>
    /\ cache     = << >>
    /\ active    = {}
    /\ processed = {}
    /\ stored    = {}
    /\ emitted   = {}
    /\ stack     = [t \in Threads |-> << >>]
    /\ todo      = world.roots
    /\ left      = SetToSeq(DOMAIN prev.node)
    /\ failure   = [why |-> "", n |-> NoQuery]

ThreadStep(t) ==
    \/ Begin(t)
    \/ DepGreen(t) \/ DepRed(t) \/ DepUnknown(t) \/ DepMarked(t) \/ TryForce(t)
    \/ Promote(t) \/ EmitSideEffects(t) \/ MarkGreen(t)
    \/ Ensure(t) \/ Ensured(t) \/ CacheHit(t) \/ StartJob(t) \/ TryLoad(t) \/ LoadGreen(t)
    \/ StartTask(t) \/ Ask(t) \/ Read(t) \/ Finish(t) \/ Intern(t) \/ Colour(t) \/ Complete(t)

AllEnded == AllIdle /\ left = << >>

Ended == (AllEnded \/ failure.why # "") /\ UNCHANGED vars

Next == (\E t \in Threads : ThreadStep(t)) \/ CachePromotion \/ Ended

(* A thread that does not wait for a job is scheduled. *)
Spec == /\ Init /\ [][Next]_vars
        /\ \A t \in Threads : WF_vars(ThreadStep(t))
        /\ WF_vars(CachePromotion)

-----------------------------------------------------------------------------
(* Properties *)

Labels == {"ensure", "ensured", "get", "start", "marked", "run", "intern", "colour",
           "complete", "mark", "tried", "forced", "emit", "green"}

JobLabels == {"start", "marked", "run", "intern", "colour", "complete"}

(* A query is executed by exactly one thread and not after it was cached,   *)
(* and a coloured node has its index in the current graph.                  *)
TypeOK ==
    /\ colour \in [DOMAIN prev.node -> {"none", "red", "green"}]
    /\ DOMAIN promoted \subseteq DOMAIN prev.node
    /\ DOMAIN fresh \intersect DOMAIN prev.node \subseteq {n \in DOMAIN fresh : n \notin Queries}
    /\ processed \union stored \union emitted \subseteq world.warns
    /\ \A t \in Threads : \A i \in DOMAIN stack[t] : stack[t][i].pc \in Labels
    /\ \A q \in Queries :
          Cardinality({t \in Threads : \E i \in DOMAIN stack[t] :
                          stack[t][i].n = q /\ stack[t][i].pc \in JobLabels})
             = IF q \in active THEN 1 ELSE 0
    /\ active \intersect DOMAIN cache = {}
    /\ \A n \in DOMAIN colour : colour[n] # "none" => n \in DOMAIN promoted

(* The old nodes a node was computed from, itself included. *)
Reaches(n) ==
    {m \in DOMAIN prev.node :
        \A X \in SUBSET DOMAIN prev.node :
           (n \in X /\ \A x \in X : ToSet(prev.node[x].edges) \subseteq X) => m \in X}

(* No assertion, unwrap or panic of the dependency graph fails: a forced    *)
(* query has a colour, a promoted node's dependencies have indices, a green *)
(* result computed again has the old fingerprint.  A query is executed      *)
(* while another thread makes its node only if the node depends on one      *)
(* whose key cannot be reconstructed: such a node has no colour until some  *)
(* thread asks for its query, so that what could not be marked green a      *)
(* moment ago can be now.                                                   *)
EngineNeverFails ==
    failure.why # "" =>
        /\ failure.why \in {"forcing query with existing node", "duplicate color",
                            "side effects stored twice"}
        /\ \E n \in Reaches(failure.n) : n \in world.unforceable

(* The assertion with which with_task begins: the node of a query that is   *)
(* about to be executed does not exist.                                     *)
TaskHasNoNode == failure.why # "forcing query with existing node"

(* Whatever was reused, every result is the one a build from scratch        *)
(* computes, and every node has the edges and the fingerprint it would have *)
(* there; a hashed node is green exactly if its result did not change.      *)
ResultsFromScratch ==
    /\ \A q \in DOMAIN cache : cache[q].val = scratch.value[q]
    /\ \A n \in DOMAIN promoted : promoted[n] = scratch.node[n]
    /\ \A n \in DOMAIN fresh : fresh[n] = scratch.node[n]
    /\ \A n \in DOMAIN colour \ world.nohash :
          n \in Queries /\ colour[n] # "none" =>
             (colour[n] = "green" <=> scratch.value[n] = prev.value[n])

(* Marking forces and keeps nothing that a build from scratch would not     *)
(* ask for, so no key of something that is gone is reconstructed.           *)
OnlyNeededRun ==
    /\ active \union DOMAIN cache \subseteq scratch.needed
    /\ DOMAIN promoted \union DOMAIN fresh \subseteq DOMAIN scratch.node

(* Unless an assertion fails every session ends, and then the diagnostics   *)
(* emitted, and those stored for the next session, are those of a build     *)
(* from scratch, and every result on disk that is still valid is in memory  *)
(* to be written again.                                                     *)
EndsAsFromScratch ==
    <>( \/ failure.why # ""
        \/ /\ AllEnded
           /\ emitted = scratch.needed \intersect world.warns
           /\ stored  = emitted
           /\ \A n \in DOMAIN colour : CachePromotable(n) => n \in DOMAIN cache )
=============================================================================
