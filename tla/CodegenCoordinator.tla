-------------------------- MODULE CodegenCoordinator --------------------------
(***************************************************************************)
(* The code generation pipeline of rustc_codegen_ssa: the main thread that *)
(* translates codegen units to LLVM IR (base.rs, codegen_crate), the       *)
(* coordinator thread that schedules LLVM work under a jobserver           *)
(* (back/write.rs, start_executing_work) and the LLVM worker threads it    *)
(* spawns (spawn_work).                                                    *)
(*                                                                         *)
(* A module of LLVM IR is the set of units whose code it holds, so fat LTO *)
(* and -Zcombine-cgu are unions of sets and "no unit is lost or compiled   *)
(* twice" can be stated.                                                   *)
(*                                                                         *)
(* The coordinator's channel has three kinds of producers.  The messages   *)
(* of the main thread are kept in order (inbox).  A worker sends its one   *)
(* message as its last act and the jobserver helper does nothing but send  *)
(* tokens, so every order in which their messages can arrive relative to   *)
(* the others' is an order in which they can be sent: finished is a set    *)
(* and a token is handed over when the coordinator receives it.            *)
(***************************************************************************)
EXTENDS Integers, FiniteSets, Sequences

CONSTANTS
  Cgus,       \* the codegen units a crate can be partitioned into
  Alloc,      \* the allocator shim module
  Upstream,   \* the modules of upstream rlibs that join fat and thin LTO
  Cost,       \* the estimated cost of the work on a module
  Pool,       \* the jobserver tokens there are besides the implicit one
  Configs     \* the command lines considered

\* Settings of a session that the pipeline reads, with the units it partitions
\* its crate into and the modules of the rlibs it depends on.  A session that
\* generates no code has no unit and no shim.
Config == [lto : {"No", "ThinLocal", "Thin", "Fat"}, rlib : BOOLEAN,
           linkerLto : BOOLEAN, combine : BOOLEAN, noParallel : BOOLEAN,
           allocator : BOOLEAN, cgus : SUBSET Cgus, upstream : SUBSET Upstream]

AllUnits == Cgus \cup {Alloc} \cup Upstream

Module == SUBSET AllUnits

ASSUME UnitsAssumption ==
  /\ IsFiniteSet(Cgus)
  /\ IsFiniteSet(Upstream)
  /\ Alloc \notin Cgus \cup Upstream
  /\ Cgus \cap Upstream = {}

ASSUME CostAssumption == Cost \in [Module -> Nat] /\ Cost[{Alloc}] = 0

ASSUME PoolAssumption == Pool \in Nat

ASSUME ConfigsAssumption == Configs \subseteq Config

VARIABLES
  conf,             \* the session's settings
  green,            \* the codegen units whose cached work product is valid
  (* the main thread *)
  mpc,              \* where codegen_crate and OngoingCodegen::join are
  todo,             \* the units not yet handed to the coordinator
  signals,          \* CguMessages sent and not yet received
  inbox,            \* the main thread's messages to the coordinator
  (* the coordinator thread *)
  cpc,              \* "top" of the loop, "recv" or "exited"
  exit,             \* how the coordinator thread ended
  codegenState,
  mainThreadState,
  workItems,
  tokens,           \* jobserver tokens held
  own,              \* running_with_own_token
  lists,            \* the vectors finished modules are collected in
  startedLto,
  (* the workers, the jobserver helper and the shared emitter *)
  running,          \* work items a worker thread is executing
  finished,         \* WorkItem messages not yet received
  requested,        \* token requests not yet answered
  errorSent,        \* an error waits in the shared emitter's channel
  noObject          \* compiled modules without an object file

confVars  == <<conf, green>>
mainVars  == <<mpc, todo>>
exitVars  == <<cpc, exit>>
queueVars == <<workItems, tokens, own>>
ltoVars   == <<lists, startedLto>>
envVars   == <<finished, requested, errorSent, noObject>>

vars == <<confVars, mainVars, signals, inbox, exitVars, codegenState,
          mainThreadState, queueVars, ltoVars, running, envVars>>

(***************************************************************************)
(* Messages, work items and results                                        *)
(***************************************************************************)
WorkItem == [op : {"Optimize", "CopyPostLtoArtifacts", "LTO"}, mod : Module]

Item(op, m) == [op |-> op, mod |-> m]

\* WorkItemResult, with the two ways a worker can fail.
Results == {"Finished", "NeedsLink", "NeedsFatLto", "NeedsThinLto",
            "FatalError", "Panicked"}

\* What the main thread sends.
Message ==
  [type : {"CodegenDone", "AddImportOnlyModule", "CodegenComplete",
           "CodegenAborted"},
   item : WorkItem]

NoItem == Item("Optimize", {})

Plain(t) == [type |-> t, item |-> NoItem]

ListNames == {"compiled", "allocator", "link", "fat", "thin", "import"}

Least(a, b) == IF a < b THEN a ELSE b

(***************************************************************************)
(* Decisions read off the session                                          *)
(***************************************************************************)
\* compute_per_cgu_lto_type.
ComputeLtoType(isAllocator) ==
  CASE conf.lto = "ThinLocal" /\ ~conf.linkerLto /\ ~isAllocator -> "Thin"
    [] conf.lto = "Thin" /\ ~conf.linkerLto /\ ~conf.rlib         -> "Thin"
    [] conf.lto = "Fat" /\ ~conf.rlib                             -> "Fat"
    [] OTHER                                                      -> "No"

\* determine_cgu_reuse.
CguReuse(u) ==
  CASE u \notin green                -> "No"
    [] ComputeLtoType(FALSE) = "No"  -> "PostLto"
    [] OTHER                         -> "PreLto"

\* The units codegen_crate hands over.
Units == conf.cgus \cup (IF conf.allocator THEN {Alloc} ELSE {})

\* A module is an allocator module until LTO makes it a regular one.
IsAllocator(i) == i.op = "Optimize" /\ i.mod = {Alloc}

\* finish_intra_module_work.
FinishIntraModuleWork(i) ==
  IF conf.combine /\ ~IsAllocator(i) THEN "NeedsLink" ELSE "Finished"

\* execute_optimize_work_item, execute_copy_from_cache_work_item and
\* execute_lto_work_item, when they succeed.
Execute(i) ==
  CASE i.op = "CopyPostLtoArtifacts" -> "Finished"
    [] i.op = "LTO" -> FinishIntraModuleWork(i)
    [] i.op = "Optimize" ->
         CASE ComputeLtoType(IsAllocator(i)) = "No"   -> FinishIntraModuleWork(i)
           [] ComputeLtoType(IsAllocator(i)) = "Thin" -> "NeedsThinLto"
           [] ComputeLtoType(IsAllocator(i)) = "Fat"  -> "NeedsFatLto"

\* The key the queue is sorted by: copying and the single fat LTO item cost 0.
ItemCost(i) == IF i.op = "CopyPostLtoArtifacts" THEN 0 ELSE Cost[i.mod]

\* The items that n pops from the sorted queue q can yield: n of the most
\* expensive ones, in whatever order binary search put those of equal cost.
Popped(q, n) ==
  {s \in SUBSET q :
     /\ Cardinality(s) = n
     /\ \A i \in s, j \in q \ s : ItemCost(j) <= ItemCost(i)}

\* queue_full_enough.
QueueFullEnough(items, workers) ==
  /\ items > 0
  /\ items >= workers - ((3 * workers) \div 4)

\* running_with_any_token.
RunningWithAnyToken == own + (IF mainThreadState = "Lending" THEN 1 ELSE 0)

-------------------------------------------------------------------------------
(***************************************************************************)
(* The main thread                                                         *)
(***************************************************************************)
\* What an earlier session can have left: a work product is saved per compiled
\* module under that module's name, so where a session compiles one merged
\* module only one unit has one.  A session with a cache has fat LTO start from
\* serialized modules, those of upstream crates first: with one of these the
\* merged module bears its name and no unit has a work product.
PossiblyGreen(c) ==
  {g \in SUBSET c.cgus :
     /\ c.combine => Cardinality(g) <= 1
     /\ c.lto = "Fat" /\ ~c.rlib =>
          Cardinality(g) <= (IF c.upstream = {} THEN 1 ELSE 0)}

Init ==
  /\ conf \in Configs
  /\ green \in PossiblyGreen(conf)
  /\ todo = Units
  /\ mpc = "prepare"
  /\ signals = 0
  /\ inbox = <<>>
  /\ cpc = "top"
  /\ exit = "none"
  /\ codegenState = "Ongoing"
  /\ mainThreadState = "Idle"
  /\ workItems = {} /\ tokens = 0 /\ own = 0
  /\ lists = [k \in ListNames |-> {}]
  /\ startedLto = FALSE
  /\ running = {}
  /\ finished = {}
  /\ requested = 0
  /\ errorSent = FALSE
  /\ noObject = {}

\* Sending to a coordinator that is gone is ignored (drop(sender.send(..))).
Send(m) == inbox' = IF cpc = "exited" THEN inbox ELSE Append(inbox, m)

coordinatorVars == <<exitVars, codegenState, mainThreadState, queueVars,
                     ltoVars, running, envVars>>

\* What the main thread does without having waited for a signal: translating
\* the allocator shim, and before the first unit sorting the units, computing
\* their reuse and, with several threads, translating a first batch of them.
PrepareCgus ==
  /\ mpc = "prepare"
  /\ mpc' = "wait"
  /\ UNCHANGED <<confVars, todo, signals, inbox, coordinatorVars>>

\* A query or LLVM fails in that: the main thread unwinds, whatever state the
\* coordinator is in.
PrepareCgusFails ==
  /\ mpc = "prepare" /\ Units # {}
  /\ mpc' = "dropping"
  /\ UNCHANGED <<confVars, todo, signals, inbox, coordinatorVars>>

\* wait_for_signal_to_codegen_item and check_for_errors: a coordinator that is
\* gone ends the wait too, and an error of a worker unwinds the main thread.
WaitForSignal ==
  /\ mpc = "wait"
  /\ signals > 0 \/ cpc = "exited"
  /\ signals' = IF signals > 0 THEN signals - 1 ELSE signals
  /\ mpc' = IF errorSent THEN "dropping" ELSE "translate"
  /\ UNCHANGED <<confVars, todo, inbox, coordinatorVars>>

\* The allocator shim was translated before the wait and is only submitted.
SubmitAllocator ==
  /\ mpc = "translate" /\ Alloc \in todo
  /\ todo' = todo \ {Alloc}
  /\ Send([type |-> "CodegenDone", item |-> Item("Optimize", {Alloc})])
  /\ mpc' = "prepare"
  /\ UNCHANGED <<confVars, signals, coordinatorVars>>

\* The body of codegen_crate's loop for one unit.
CodegenCgu(u) ==
  /\ mpc = "translate" /\ Alloc \notin todo /\ u \in todo
  /\ todo' = todo \ {u}
  /\ \/ /\ CguReuse(u) = "No"
        /\ Send([type |-> "CodegenDone", item |-> Item("Optimize", {u})])
     \/ /\ CguReuse(u) = "PreLto"
        /\ Send([type |-> "AddImportOnlyModule", item |-> Item("LTO", {u})])
     \/ /\ CguReuse(u) = "PostLto"
        /\ Send([type |-> "CodegenDone",
                 item |-> Item("CopyPostLtoArtifacts", {u})])
  /\ mpc' = "wait"
  /\ UNCHANGED <<confVars, signals, coordinatorVars>>

\* Translation reports an error (sess.abort_if_errors), or the bitcode of a
\* reused unit cannot be read: the main thread unwinds.
CodegenCguFails(u) ==
  /\ mpc = "translate" /\ Alloc \notin todo /\ u \in todo
  /\ CguReuse(u) # "PostLto"
  /\ mpc' = "dropping"
  /\ UNCHANGED <<confVars, todo, signals, inbox, coordinatorVars>>

\* codegen_finished, after its wait and check.
CodegenFinished ==
  /\ mpc = "translate" /\ todo = {}
  /\ Send(Plain("CodegenComplete"))
  /\ mpc' = "join"
  /\ UNCHANGED <<confVars, todo, signals, coordinatorVars>>

\* Mutant: Coordinator::drop joins without telling the thread.
DropCoordinatorSilently ==
  /\ mpc = "dropping"
  /\ mpc' = "dropJoin"
  /\ UNCHANGED <<confVars, todo, signals, inbox, coordinatorVars>>

\* Unwinding drops OngoingCodegen: its receiver of CguMessages first (mpc is
\* then "dropping"), its Coordinator last, which tells the thread to wind down.
DropCoordinator ==
  /\ mpc = "dropping"
  /\ Send(Plain("CodegenAborted"))
  /\ mpc' = "dropJoin"
  /\ UNCHANGED <<confVars, todo, signals, coordinatorVars>>

\* Coordinator::drop has joined the thread.
DropJoined ==
  /\ mpc = "dropJoin" /\ cpc = "exited"
  /\ mpc' = "aborted"
  /\ UNCHANGED <<confVars, todo, signals, inbox, coordinatorVars>>

\* SharedEmitterMain::check, blocking, meets an error.  The non-blocking check
\* at the end of codegen_crate does the same a little earlier.
JoinMeetsError ==
  /\ mpc = "join" /\ errorSent
  /\ mpc' = "dropping"
  /\ UNCHANGED <<confVars, todo, signals, inbox, coordinatorVars>>

\* The emitter's channel is closed: the coordinator and every worker have
\* dropped their senders.  OngoingCodegen::join looks at the thread's result.
JoinReturns ==
  /\ mpc = "join" /\ ~errorSent
  /\ cpc = "exited" /\ running = {}
  /\ mpc' = CASE exit = "Ok"  -> "success"
              [] exit = "Err" -> "expectedAbort"
              [] OTHER        -> "bug"
  /\ UNCHANGED <<confVars, todo, signals, inbox, coordinatorVars>>

Main ==
  \/ PrepareCgus \/ WaitForSignal \/ SubmitAllocator
  \/ \E u \in Cgus : CodegenCgu(u)
  \/ CodegenFinished \/ DropCoordinator \/ DropJoined
  \/ JoinMeetsError \/ JoinReturns

\* OngoingCodegen's receiver of CguMessages still exists.
MainListens == mpc \notin {"dropping", "dropJoin", "aborted"}

-------------------------------------------------------------------------------
(***************************************************************************)
(* The coordinator thread: the top of the loop                             *)
(***************************************************************************)
\* The thread ends; the tokens it holds and the helper go with it.
Leave(how) ==
  /\ cpc' = "exited"
  /\ exit' = how
  /\ tokens' = 0

\* A failed assertion, bug! or unwrap ends the thread with its work under way.
Panic(why) ==
  /\ Leave(why)
  /\ UNCHANGED <<codegenState, mainThreadState, workItems, own, ltoVars,
                 running, finished, requested, errorSent, noObject>>

\* Mutant: the while loop compares with <= instead of <.
SpawnWorkOneTooMany(q, w, lend) ==
  LET n  == IF w <= tokens
            THEN Least(Cardinality(q) - lend, tokens - w + 1) ELSE 0
  IN  \E s \in Popped(q, lend + n) :
        /\ workItems' = q \ s
        /\ running' = running \cup s
        /\ own' = w + n
        /\ tokens' = Least(tokens, w + n)
        /\ cpc' = "recv"
        /\ UNCHANGED exit

\* The end of a turn with queue q and running_with_own_token w: lend pops one
\* item for the implicit token, the while loop pops items for the tokens held,
\* the tokens left over are relinquished, and the thread waits for a message.
SpawnWork(q, w, lend) ==
  LET n  == IF w < tokens THEN Least(Cardinality(q) - lend, tokens - w) ELSE 0
  IN  \E s \in Popped(q, lend + n) :
        /\ workItems' = q \ s
        /\ running' = running \cup s
        /\ own' = w + n
        /\ tokens' = Least(tokens, w + n)
        /\ cpc' = "recv"
        /\ UNCHANGED exit

\* anticipated_running.
AnticipatedRunning ==
  own + Least(tokens - own, Cardinality(workItems)) + 1

\* Codegen is ongoing and the implicit token is free: have the main thread
\* translate the next unit, or lend the token to a worker.
TurnOngoingIdle ==
  /\ cpc = "top" /\ codegenState = "Ongoing" /\ mainThreadState = "Idle"
  /\ IF tokens < own
     THEN Panic("checked_sub") /\ UNCHANGED signals
     ELSE IF QueueFullEnough(Cardinality(workItems), AnticipatedRunning)
     THEN /\ mainThreadState' = "Lending"
          /\ SpawnWork(workItems, own, 1)
          /\ UNCHANGED <<signals, codegenState, ltoVars, envVars>>
     ELSE IF MainListens
     THEN /\ signals' = signals + 1
          /\ mainThreadState' = "Codegenning"
          /\ SpawnWork(workItems, own, 0)
          /\ UNCHANGED <<codegenState, ltoVars, envVars>>
     ELSE Panic("send_failed") /\ UNCHANGED signals
  /\ UNCHANGED <<confVars, mainVars, inbox>>

\* Codegen is ongoing and the implicit token is in use.
TurnOngoingBusy ==
  /\ cpc = "top" /\ codegenState = "Ongoing" /\ mainThreadState # "Idle"
  /\ SpawnWork(workItems, own, 0)
  /\ UNCHANGED <<confVars, mainVars, signals, inbox, codegenState,
                 mainThreadState, ltoVars, envVars>>

\* Mutant: only the queue is looked at, not the workers.
AllWorkDoneUnlessQueued == workItems = {}

\* The condition of the Completed branch that no work is under way or queued.
AllWorkDone == RunningWithAnyToken = 0 /\ workItems = {}

NoLtoWork == \A k \in {"fat", "thin", "import"} : lists[k] = {}

\* After the loop, and codegen is complete: link what -Zcombine-cgu collected.
ReturnModules ==
  \/ /\ lists["link"] = {}
     /\ Leave("Ok")
     /\ UNCHANGED <<lists, errorSent>>
  \/ /\ lists["link"] # {} /\ lists["compiled"] = {}
     /\ \/ /\ Leave("Ok")
           /\ lists' = [lists EXCEPT !["link"] = {},
                                     !["compiled"] = {UNION lists["link"]}]
           /\ UNCHANGED errorSent
        \/ /\ Leave("Err")
           /\ errorSent' = TRUE
           /\ UNCHANGED lists
  \/ /\ lists["link"] # {} /\ lists["compiled"] # {}
     /\ Leave("link_mixed")
     /\ UNCHANGED <<lists, errorSent>>

TurnCompletedDone ==
  /\ cpc = "top" /\ codegenState = "Completed" /\ AllWorkDone /\ NoLtoWork
  /\ ReturnModules
  /\ UNCHANGED <<confVars, mainVars, signals, inbox, codegenState,
                 mainThreadState, workItems, own, startedLto, running,
                 finished, requested, noObject>>

\* Modules of upstream crates take part unless LTO is local (prepare_lto).
LtoUpstream == IF conf.lto = "ThinLocal" THEN {} ELSE conf.upstream

\* Mutant: the modules reused from the cache are left out.
GenerateLtoWorkForgetsImports(reused) ==
  IF lists["fat"] # {}
  THEN {Item("LTO", (UNION lists["fat"]) \cup LtoUpstream)}
  ELSE {Item("LTO", m) : m \in lists["thin"]}
         \cup {Item("LTO", {x}) : x \in LtoUpstream}
         \cup {Item("CopyPostLtoArtifacts", m) : m \in reused}

\* generate_lto_work: fat LTO merges everything into one item; thin LTO makes
\* an item of each module, those of reused being copied where their cache
\* key did not change.
GenerateLtoWork(reused) ==
  IF lists["fat"] # {}
  THEN {Item("LTO",
             (UNION (lists["fat"] \cup lists["import"])) \cup LtoUpstream)}
  ELSE {Item("LTO", m) : m \in lists["thin"] \cup (lists["import"] \ reused)}
         \cup {Item("LTO", {x}) : x \in LtoUpstream}
         \cup {Item("CopyPostLtoArtifacts", m) : m \in reused}

\* How generate_lto_work ends: LLVM can fail on its inputs (an error is
\* emitted, the coordinator unwinds), and run_thin refuses to run when the
\* linker is to do LTO.
StartLto(reused) ==
  LET work == GenerateLtoWork(reused)
  IN  \/ /\ lists["fat"] = {} => ~conf.linkerLto
         /\ startedLto' = TRUE
         /\ lists' = [lists EXCEPT !["fat"] = {}, !["thin"] = {},
                                   !["import"] = {}]
         /\ requested' = requested
              + (IF conf.noParallel THEN 0 ELSE Cardinality(work))
         /\ mainThreadState' = "Lending"
         /\ SpawnWork(work, own, 1)
         /\ UNCHANGED <<codegenState, finished, errorSent, noObject>>
      \/ /\ lists["fat"] = {} /\ conf.linkerLto
         /\ Panic("lto_unreachable")
      \/ /\ Leave("lto_failed")
         /\ errorSent' = TRUE
         /\ UNCHANGED <<codegenState, mainThreadState, workItems, own, ltoVars,
                        running, finished, requested, noObject>>

TurnCompletedLto ==
  /\ cpc = "top" /\ codegenState = "Completed" /\ AllWorkDone /\ ~NoLtoWork
  /\ IF startedLto THEN Panic("lto_restarted")
     ELSE IF mainThreadState = "Codegenning" THEN Panic("codegenning_completed")
     ELSE \E reused \in SUBSET (IF lists["fat"] = {} THEN lists["import"] ELSE {}) :
            StartLto(reused)
  /\ UNCHANGED <<confVars, mainVars, signals, inbox>>

\* Everything is translated: the implicit token goes to a queued item, or takes
\* over a running worker so that the worker's own token can be given back.
TurnCompleted ==
  /\ cpc = "top" /\ codegenState = "Completed" /\ ~AllWorkDone
  /\ IF mainThreadState = "Codegenning" THEN Panic("codegenning_completed")
     ELSE IF mainThreadState = "Lending"
     THEN /\ SpawnWork(workItems, own, 0)
          /\ UNCHANGED <<codegenState, mainThreadState, ltoVars, envVars>>
     ELSE /\ mainThreadState' = "Lending"
          /\ IF workItems # {} THEN SpawnWork(workItems, own, 1)
                               ELSE SpawnWork(workItems, own - 1, 0)
          /\ UNCHANGED <<codegenState, ltoVars, envVars>>
  /\ UNCHANGED <<confVars, mainVars, signals, inbox>>

\* Codegen was aborted: start nothing, leave once the workers are done.
TurnAborted ==
  /\ cpc = "top" /\ codegenState = "Aborted"
  /\ IF RunningWithAnyToken = 0
     THEN Leave("Err")
     ELSE cpc' = "recv" /\ tokens' = Least(tokens, own) /\ UNCHANGED exit
  /\ UNCHANGED <<confVars, mainVars, signals, inbox, codegenState,
                 mainThreadState, workItems, own, ltoVars, running, envVars>>

-------------------------------------------------------------------------------
(***************************************************************************)
(* The coordinator thread: the messages                                    *)
(***************************************************************************)
\* A handled message leads back to the top of the loop.
Loop == cpc' = "top" /\ UNCHANGED exit

\* Mutant: the worker that takes the token over is not counted on it.
TokenAcquiredUncounted ==
  /\ cpc = "recv" /\ requested > 0 /\ tokens < Pool
  /\ requested' = requested - 1
  /\ tokens' = tokens + 1
  /\ mainThreadState' = IF mainThreadState = "Lending" THEN "Idle"
                                                       ELSE mainThreadState
  /\ Loop
  /\ UNCHANGED <<confVars, mainVars, signals, inbox, codegenState, workItems, own,
                 ltoVars, running, finished, errorSent, noObject>>

\* Mutant: the implicit token is taken for free whatever it was used for.
TokenAcquiredResets ==
  /\ cpc = "recv" /\ requested > 0 /\ tokens < Pool
  /\ requested' = requested - 1
  /\ tokens' = tokens + 1
  /\ mainThreadState' = "Idle"
  /\ own' = IF mainThreadState = "Lending" THEN own + 1 ELSE own
  /\ Loop
  /\ UNCHANGED <<confVars, mainVars, signals, inbox, codegenState, workItems,
                 ltoVars, running, finished, errorSent, noObject>>

\* Message::Token(Ok(_)): a worker running on the implicit token takes it over.
TokenAcquired ==
  /\ cpc = "recv" /\ requested > 0 /\ tokens < Pool
  /\ requested' = requested - 1
  /\ tokens' = tokens + 1
  /\ IF mainThreadState = "Lending"
     THEN mainThreadState' = "Idle" /\ own' = own + 1
     ELSE UNCHANGED <<mainThreadState, own>>
  /\ Loop
  /\ UNCHANGED <<confVars, mainVars, signals, inbox, codegenState, workItems,
                 ltoVars, running, finished, errorSent, noObject>>

\* Message::Token(Err(_)): the jobserver is broken.
TokenFailed ==
  /\ cpc = "recv" /\ requested > 0
  /\ requested' = requested - 1
  /\ errorSent' = TRUE
  /\ codegenState' = "Aborted"
  /\ Loop
  /\ UNCHANGED <<confVars, mainVars, signals, inbox, mainThreadState, queueVars,
                 ltoVars, running, finished, noObject>>

\* The next message of the main thread is received.
Receive(type) ==
  /\ cpc = "recv" /\ inbox # <<>>
  /\ Head(inbox).type = type
  /\ inbox' = Tail(inbox)

\* Mutant: no token is requested for the queued item.
CodegenDoneUnrequested ==
  /\ Receive("CodegenDone")
  /\ IF mainThreadState # "Codegenning" THEN Panic("not_codegenning")
     ELSE /\ workItems' = workItems \cup {Head(inbox).item}
          /\ mainThreadState' = "Idle"
          /\ Loop
          /\ UNCHANGED <<codegenState, tokens, own, ltoVars, running, envVars>>
  /\ UNCHANGED <<confVars, mainVars, signals>>

\* Message::CodegenDone: queue the item and ask for a token to run it with.
CodegenDone ==
  /\ Receive("CodegenDone")
  /\ IF mainThreadState # "Codegenning" THEN Panic("not_codegenning")
     ELSE /\ workItems' = workItems \cup {Head(inbox).item}
          /\ requested' = requested + (IF conf.noParallel THEN 0 ELSE 1)
          /\ mainThreadState' = "Idle"
          /\ Loop
          /\ UNCHANGED <<codegenState, tokens, own, ltoVars, running, finished,
                         errorSent, noObject>>
  /\ UNCHANGED <<confVars, mainVars, signals>>

\* Message::AddImportOnlyModule.
AddImportOnlyModule ==
  /\ Receive("AddImportOnlyModule")
  /\ IF startedLto THEN Panic("lto_restarted")
     ELSE IF codegenState # "Ongoing" THEN Panic("import_not_ongoing")
     ELSE IF mainThreadState # "Codegenning" THEN Panic("not_codegenning")
     ELSE /\ lists' = [lists EXCEPT !["import"] = @ \cup {Head(inbox).item.mod}]
          /\ mainThreadState' = "Idle"
          /\ Loop
          /\ UNCHANGED <<codegenState, queueVars, startedLto, running, envVars>>
  /\ UNCHANGED <<confVars, mainVars, signals>>

\* Mutant: an earlier abort is overwritten.
CodegenCompleteAlways ==
  /\ Receive("CodegenComplete")
  /\ IF mainThreadState # "Codegenning" THEN Panic("not_codegenning")
     ELSE /\ codegenState' = "Completed"
          /\ mainThreadState' = "Idle"
          /\ Loop
          /\ UNCHANGED <<queueVars, ltoVars, running, envVars>>
  /\ UNCHANGED <<confVars, mainVars, signals>>

\* Message::CodegenComplete.
CodegenComplete ==
  /\ Receive("CodegenComplete")
  /\ IF mainThreadState # "Codegenning" THEN Panic("not_codegenning")
     ELSE /\ codegenState' = IF codegenState = "Aborted" THEN "Aborted"
                                                         ELSE "Completed"
          /\ mainThreadState' = "Idle"
          /\ Loop
          /\ UNCHANGED <<queueVars, ltoVars, running, envVars>>
  /\ UNCHANGED <<confVars, mainVars, signals>>

\* Message::CodegenAborted.
CodegenAborted ==
  /\ Receive("CodegenAborted")
  /\ codegenState' = "Aborted"
  /\ Loop
  /\ UNCHANGED <<confVars, mainVars, signals, mainThreadState, queueVars,
                 ltoVars, running, envVars>>

\* The vector a result is collected in.
Destination(f) ==
  CASE f.res = "Finished" /\ IsAllocator(f.item) -> "allocator"
    [] f.res = "Finished"                        -> "compiled"
    [] f.res = "NeedsLink"                       -> "link"
    [] f.res = "NeedsFatLto"                     -> "fat"
    [] f.res = "NeedsThinLto"                    -> "thin"

\* The assertions on the vectors when a result goes to list k.
CollectAsserts(k) ==
  CASE k = "compiled"  -> lists["link"] = {}
    [] k = "link"      -> lists["compiled"] = {}
    [] k = "allocator" -> lists["allocator"] = {}
    [] k = "fat"       -> ~startedLto /\ lists["thin"] = {}
    [] k = "thin"      -> ~startedLto /\ lists["fat"] = {}

\* Mutant: a lent implicit token is not taken into account.
FreeWorkerOwn == own' = own - 1 /\ UNCHANGED mainThreadState

\* free_worker: the worker that ends gives its place back to the implicit token
\* if that is lent, whichever worker it was lent to.
FreeWorker ==
  IF mainThreadState = "Lending"
  THEN mainThreadState' = "Idle" /\ UNCHANGED own
  ELSE own' = own - 1 /\ UNCHANGED mainThreadState

\* Message::WorkItem.
WorkItemDone(f) ==
  /\ cpc = "recv" /\ f \in finished
  /\ IF RunningWithAnyToken = 0 THEN Panic("own_underflow")
     ELSE IF f.res = "Panicked" THEN Panic("worker_panicked")
     ELSE IF f.res = "FatalError"
     THEN /\ FreeWorker
          /\ codegenState' = "Aborted"
          /\ Loop
          /\ finished' = finished \ {f}
          /\ UNCHANGED <<workItems, tokens, ltoVars, running, requested,
                         errorSent, noObject>>
     ELSE IF ~CollectAsserts(Destination(f))
     THEN Panic(IF Destination(f) \in {"compiled", "link"}
                THEN "link_mixed" ELSE "collect")
     ELSE /\ FreeWorker
          /\ lists' = [lists EXCEPT ![Destination(f)] = @ \cup {f.item.mod}]
          /\ Loop
          /\ finished' = finished \ {f}
          /\ UNCHANGED <<codegenState, workItems, tokens, startedLto, running,
                         requested, errorSent, noObject>>
  /\ UNCHANGED <<confVars, mainVars, signals, inbox>>

Turn ==
  \/ TurnOngoingIdle \/ TurnOngoingBusy
  \/ TurnCompletedDone \/ TurnCompletedLto \/ TurnCompleted
  \/ TurnAborted

Handle ==
  \/ CodegenDone \/ AddImportOnlyModule \/ CodegenComplete \/ CodegenAborted
  \/ \E f \in finished : WorkItemDone(f)

-------------------------------------------------------------------------------
(***************************************************************************)
(* The workers (spawn_work): the thread sends one message when it ends,    *)
(* after the diagnostics of its work, whichever way it ends.               *)
(***************************************************************************)
WorkerEnds(i, res) ==
  /\ running' = running \ {i}
  /\ finished' = finished \cup {[item |-> i, res |-> res]}
  /\ UNCHANGED <<confVars, mainVars, signals, inbox, exitVars, codegenState,
                 mainThreadState, queueVars, ltoVars, requested>>

WorkerSucceeds(i) ==
  /\ i \in running
  /\ WorkerEnds(i, Execute(i))
  /\ UNCHANGED <<errorSent, noObject>>

\* Mutant: the copy that failed is not reported.
WorkerCopyFailsSilently(i) ==
  /\ i \in running /\ i.op = "CopyPostLtoArtifacts"
  /\ WorkerEnds(i, Execute(i))
  /\ noObject' = noObject \cup {i.mod}
  /\ UNCHANGED errorSent

\* load_from_incr_comp_dir reports an error and goes on without the file.
WorkerCopyFails(i) ==
  /\ i \in running /\ i.op = "CopyPostLtoArtifacts"
  /\ WorkerEnds(i, Execute(i))
  /\ errorSent' = TRUE
  /\ noObject' = noObject \cup {i.mod}

\* Mutant: the worker gives up without a diagnostic.
WorkerFailsSilently(i) ==
  /\ i \in running /\ i.op # "CopyPostLtoArtifacts"
  /\ WorkerEnds(i, "FatalError")
  /\ UNCHANGED <<errorSent, noObject>>

\* LLVM reports an error.
WorkerFails(i) ==
  /\ i \in running /\ i.op # "CopyPostLtoArtifacts"
  /\ WorkerEnds(i, "FatalError")
  /\ errorSent' = TRUE
  /\ UNCHANGED noObject

WorkerPanics(i) ==
  /\ i \in running
  /\ WorkerEnds(i, "Panicked")
  /\ UNCHANGED <<errorSent, noObject>>

Worker(i) ==
  WorkerSucceeds(i) \/ WorkerCopyFails(i) \/ WorkerFails(i) \/ WorkerPanics(i)

\* Every thread has ended.
Terminated ==
  /\ mpc \in {"success", "aborted", "expectedAbort", "bug"}
  /\ cpc = "exited" /\ running = {}
  /\ UNCHANGED vars

Next ==
  \/ Main \/ Turn \/ Handle
  \/ PrepareCgusFails \/ \E u \in Cgus : CodegenCguFails(u)
  \/ TokenAcquired \/ TokenFailed
  \/ \E i \in running : Worker(i)
  \/ Terminated

Spec == Init /\ [][Next]_vars

\* Every thread that can run does, and an item's work comes to an end.  The
\* jobserver owes this process nothing: tokens may never come.
Fairness ==
  /\ WF_vars(Main) /\ WF_vars(Turn) /\ WF_vars(Handle)
  /\ \A i \in WorkItem : WF_vars(i \in running /\ Worker(i))

FairSpec == Spec /\ Fairness

-------------------------------------------------------------------------------
(***************************************************************************)
(* Properties                                                              *)
(***************************************************************************)
Exits == {"none", "Ok", "Err", "checked_sub", "send_failed", "link_mixed",
          "lto_unreachable", "lto_failed", "lto_restarted",
          "codegenning_completed", "not_codegenning", "import_not_ongoing",
          "own_underflow", "worker_panicked", "collect"}

\* Every variable of the pipeline has its type.
TypeOK ==
  /\ conf \in Config /\ green \in SUBSET Cgus
  /\ mpc \in {"prepare", "wait", "translate", "join", "dropping", "dropJoin",
              "aborted", "success", "expectedAbort", "bug"}
  /\ todo \in SUBSET (Cgus \cup {Alloc})
  /\ signals \in Nat
  /\ inbox \in Seq(Message)
  /\ cpc \in {"top", "recv", "exited"} /\ exit \in Exits
  /\ codegenState \in {"Ongoing", "Completed", "Aborted"}
  /\ mainThreadState \in {"Idle", "Codegenning", "Lending"}
  /\ workItems \in SUBSET WorkItem
  /\ tokens \in Nat /\ own \in Nat
  /\ lists \in [ListNames -> SUBSET Module]
  /\ startedLto \in BOOLEAN
  /\ running \in SUBSET WorkItem
  /\ finished \in SUBSET [item : WorkItem, res : Results]
  /\ requested \in Nat
  /\ errorSent \in BOOLEAN
  /\ noObject \in SUBSET Module

Running == cpc # "exited"

\* The coordinator's two counters are exact: the workers it has not heard back
\* from are those running on tokens plus the one the implicit token is lent to,
\* so free_worker never underflows running_with_own_token and the loop is left
\* with no worker alive.
WorkerAccounting ==
  Running => Cardinality(running) + Cardinality(finished) = RunningWithAnyToken

\* The main thread works on a unit: between the signal and its answer.
Translating == mpc = "translate"

\* The jobserver's promise: while the coordinator runs, the threads at work on
\* LLVM or on a unit are never more than the tokens held plus the implicit one.
ParallelismCapped ==
  Running =>
    /\ tokens <= Pool
    /\ Cardinality(running) + (IF Translating THEN 1 ELSE 0) <= tokens + 1

\* queue_full_enough relies on it: an item in the queue has a token request
\* that is still to be answered, or a token just received that the next turn
\* will run it with.  While the implicit token is lent there is one request
\* more, the one that will free the main thread.
RequestsCoverQueue ==
  (Running /\ codegenState # "Aborted" /\ ~conf.noParallel)
    => Cardinality(workItems)
         + (IF mainThreadState = "Lending" /\ workItems # {} THEN 1 ELSE 0)
       <= requested + (tokens - own)

\* Assertions, bug!s and unwraps about the handshake, the counters and LTO.
HandshakeFailures == {"checked_sub", "not_codegenning", "codegenning_completed",
                      "own_underflow", "lto_restarted", "collect"}

\* The handshake of the main thread and the coordinator keeps every assertion
\* about it: answers arrive only in state Codegenning, and codegen does not
\* complete under a translation.  A signal is sent to a main thread that is
\* gone only if that one unwound before it had handed over any unit.
HandshakeAsserts ==
  /\ exit \notin HandshakeFailures
  /\ exit = "send_failed" => conf.cgus \subseteq todo

\* Where unit u's code is: tagged so that a unit in two places shows.
Places(u) ==
  {<<"todo", w>> : w \in {u} \cap todo}
    \cup {<<"inbox", i>> : i \in {j \in DOMAIN inbox : u \in inbox[j].item.mod}}
    \cup {<<"queue", i>> : i \in {j \in workItems : u \in j.mod}}
    \cup {<<"running", i>> : i \in {j \in running : u \in j.mod}}
    \cup {<<"finished", f>> : f \in {g \in finished : u \in g.item.mod}}
    \cup UNION {{<<k, m>> : m \in {x \in lists[k] : u \in x}} : k \in ListNames}

\* No unit is dropped or compiled twice on its way through the queue, the
\* workers, LTO and linking, in whatever order the threads run.
UnitsConserved ==
  (codegenState # "Aborted" /\ exit \in {"none", "Ok"} /\ MainListens)
    => \A u \in Units : Cardinality(Places(u)) = 1

\* LTO waits for every unit to be translated and optimized.
LtoBarrier ==
  startedLto =>
    /\ todo = {}
    /\ \A i \in workItems \cup running : i.op # "Optimize"
    /\ \A f \in finished : f.item.op # "Optimize"

\* A session that succeeds has one object with the code of each unit; an error
\* anywhere in the pipeline is never lost on the way to the main thread.
SuccessIsComplete ==
  mpc = "success" =>
    /\ noObject = {}
    /\ \A u \in Units : Cardinality({m \in lists["compiled"] \cup
                                           lists["allocator"] : u \in m}) = 1

\* OngoingCodegen::join: "expected abort due to worker thread errors" is not
\* reached, as whatever made the coordinator give up told the emitter first.
ErrorsReachMain == mpc # "expectedAbort"

\* The assertions that finished modules and modules still to be linked into
\* one (-Zcombine-cgu) never meet: write.rs, on WorkItemResult::Finished and
\* WorkItemResult::NeedsLink and after the loop.
LinkAsserts == exit # "link_mixed"

\* The assertion on AddImportOnlyModule that codegen is ongoing.
ImportAsserts == exit # "import_not_ongoing"

\* Once codegen is aborted it stays so, no worker is started, no unit is asked
\* for and the session does not succeed.
AbortIsFinalStep ==
  codegenState = "Aborted" =>
    /\ codegenState' = "Aborted"
    /\ running' \subseteq running
    /\ signals' <= signals
    /\ mpc' # "success"

\* An abort is final: no step of any thread undoes it (CodegenState::Aborted).
AbortIsFinal == [][AbortIsFinalStep]_vars

\* All threads end, though the jobserver may never grant a token.
Termination ==
  <>(mpc \in {"success", "aborted", "expectedAbort", "bug"} /\ running = {})

-------------------------------------------------------------------------------
(***************************************************************************)
(* The inductive strengthenings the proofs rest on                         *)
(***************************************************************************)
Answers == {"CodegenDone", "AddImportOnlyModule", "CodegenComplete"}

InboxShape ==
  \/ inbox = <<>>
  \/ Len(inbox) = 1
  \/ Len(inbox) = 2 /\ inbox[1].type \in Answers
                    /\ inbox[2].type = "CodegenAborted"

\* No unit has been handed over, at most the shim.
NoneHandedOver == conf.cgus \subseteq todo

\* The main thread is before its next wait, or unwound there before it handed
\* over a unit: a signal or an answer may then be left behind.
AheadOfWait ==
  \/ mpc \in {"wait", "prepare"}
  \/ mpc \in {"dropping", "dropJoin"} /\ NoneHandedOver

\* A signal, the translation it starts and the answer to it exclude each other,
\* and any of them puts the coordinator in state Codegenning: of the main
\* thread's messages at most an answer and then CodegenAborted are in flight.
HandshakeInv ==
  /\ mpc \in {"aborted", "success", "expectedAbort", "bug"} => ~Running
  /\ Alloc \in todo \/ mpc = "prepare" => NoneHandedOver
  /\ mpc = "join" => todo = {}
  /\ exit = "send_failed" => ~MainListens /\ NoneHandedOver
  /\ Running =>
       /\ InboxShape
       /\ signals \in {0, 1}
       /\ signals = 1 =>
            /\ mainThreadState = "Codegenning" /\ AheadOfWait
            /\ inbox # <<>> => inbox[1].type = "CodegenAborted"
       /\ Translating => mainThreadState = "Codegenning" /\ inbox = <<>>
       /\ inbox # <<>> =>
            /\ inbox[1].type \in Answers => mainThreadState = "Codegenning"
            /\ inbox[1].type \in {"CodegenDone", "AddImportOnlyModule"}
                 => AheadOfWait
            /\ inbox[1].type = "CodegenComplete"
                 => todo = {} /\ mpc \in {"join", "dropping", "dropJoin"}
            /\ inbox[1].type = "CodegenAborted" => mpc = "dropJoin"
       /\ Len(inbox) = 2 => mpc = "dropJoin"
       /\ mpc = "join" => \/ codegenState # "Ongoing"
                          \/ inbox # <<>> /\ inbox[1].type = "CodegenComplete"
       /\ ~MainListens => \/ codegenState # "Ongoing"
                          \/ mainThreadState = "Codegenning"
                          \/ NoneHandedOver
       /\ codegenState = "Completed" =>
            /\ mainThreadState # "Codegenning" /\ todo = {}
            /\ mpc \notin {"prepare", "wait", "translate"}
       /\ startedLto => codegenState # "Ongoing"
                        /\ mainThreadState # "Codegenning"
                        /\ mpc \notin {"prepare", "wait", "translate"}

\* The work items the coordinator's side knows of.
Known == workItems \cup running \cup {f.item : f \in finished}

\* An item is in one place only, and a unit still to do has none: adding an
\* item to the queue, to the workers or to the results makes that set larger.
ItemsInv ==
  /\ IsFiniteSet(workItems) /\ IsFiniteSet(running) /\ IsFiniteSet(finished)
  /\ workItems \cap running = {}
  /\ \A f \in finished : f.item \notin workItems \cup running
  /\ \A f, g \in finished : f.item = g.item => f = g
  /\ \A u \in todo : \A i \in Known : i.mod # {u}
  /\ \A k \in DOMAIN inbox : inbox[k].type = "CodegenDone" =>
       /\ inbox[k].item \notin Known
       /\ \A u \in todo : inbox[k].item.mod # {u}

\* The tokens held cover the workers counted on them.
TokenInv ==
  Running => own <= tokens /\ tokens <= Pool

\* What the vectors hold: results come from the work done; LTO once started has
\* nothing left to start with and every item left is LTO's; the flavours of LTO
\* do not mix; the allocator shim comes in once.
ResultInv ==
  /\ \A f \in finished : f.res \in {Execute(f.item), "FatalError", "Panicked"}
  /\ startedLto => /\ NoLtoWork /\ todo = {}
                   /\ \A i \in Known : i.op # "Optimize"
  /\ lists["fat"] # {} => conf.lto = "Fat"
  /\ lists["thin"] # {} => conf.lto \in {"Thin", "ThinLocal"}
  /\ lists["allocator"] # {} =>
       /\ Alloc \notin todo /\ \A i \in Known : ~IsAllocator(i)
       /\ \A k \in DOMAIN inbox :
            inbox[k].type = "CodegenDone" => ~IsAllocator(inbox[k].item)

\* Whatever aborts codegen has told the emitter first, unless it is the main
\* thread itself; only completed codegen ends well.
ErrorInv ==
  /\ \A f \in finished : f.res = "FatalError" => errorSent
  /\ codegenState = "Aborted" => errorSent \/ mpc \in {"dropJoin", "aborted"}
  /\ exit = "Err" => errorSent \/ mpc \in {"dropJoin", "aborted"}
  /\ exit # "none" => ~Running
  /\ exit = "Ok" => codegenState = "Completed"
  /\ mpc = "success" => exit = "Ok"
  /\ mpc # "expectedAbort"
  /\ \A k \in DOMAIN inbox :
       inbox[k].type = "CodegenAborted" => mpc \in {"dropJoin", "aborted"}

\* A coordinator that ends well leaves no unit behind on any of its ways, and
\* no answer of the main thread unread; CodegenComplete brings no module; an
\* object that is missing has been reported, and success means no report.
EndInv ==
  /\ ~Running => exit # "none"
  /\ exit = "Ok" =>
       /\ ~Running /\ todo = {} /\ workItems = {} /\ running = {} /\ finished = {}
       /\ \A k \in {"link", "fat", "thin", "import"} : lists[k] = {}
       /\ mpc \notin {"prepare", "wait", "translate"}
       /\ MainListens => inbox = <<>>
  /\ \A k \in DOMAIN inbox :
       inbox[k].type = "CodegenComplete" => inbox[k].item.mod = {}
  /\ noObject # {} => errorSent
  /\ mpc = "success" => ~errorSent
===============================================================================
